---------------------------- MODULE Spec2Model ----------------------------
(***************************************************************************)
(* geteed: the line buffer, cursor, selection and search operations of     *)
(* TextEditor (src/main.py), as a state machine.                            *)
(*                                                                         *)
(* A line is a sequence of one-character strings; the buffer `lines` is a  *)
(* sequence of lines.  Python indices are 0-based: row y of the buffer is  *)
(* lines[y + 1] here, column x of a line is line[x + 1].                   *)
(***************************************************************************)
EXTENDS Integers, Sequences, FiniteSets, TLC

VARIABLES
    lines,       \* self.lines
    cursor_x,    \* self.cursor_x
    cursor_y,    \* self.cursor_y
    modified,    \* self.modified
    read_only,   \* self.read_only
    clipboard,   \* self.clipboard
    search_term, \* self.search_term
    file,        \* the text of the file self.filename on disk, None if there is none
    saved_lines, \* the buffer as it was at the last successful load or save
    scan,        \* the locals of highlight_line and the spans it has drawn
    macro_recording, \* self.macro_recording
    macro_commands,  \* self.macro_commands
    loops,       \* the for loops of run_macro in progress, the innermost last
    exc,         \* TRUE once an uncaught IndexError has ended the process
    call,        \* the last operation applied (name and arguments)
    ret,         \* the value it returned
    orig,        \* the editor state the run started from
    trail,       \* the values returned by the calls of the run so far
    pc,          \* the position of the calling sequence
    steps        \* the number of operations applied in an editing session

vars == <<lines, cursor_x, cursor_y, modified, read_only, clipboard,
          search_term, file, saved_lines, scan, macro_recording,
          macro_commands, loops, exc, call, ret, orig, trail, pc, steps>>

-----------------------------------------------------------------------------
(* Bounds of the model.                                                    *)

MaxLines == 3       \* rows of a buffer drawn as input
MaxChars == 3       \* characters of a buffer drawn as input, all rows together
MaxText  == 3       \* characters (newlines included) of an inserted text
MaxTerm  == 2       \* characters of a search term
MaxSteps == 2       \* operations of one editing session

(* Program constants.                                                      *)
tab_size == 4

NL    == "\n"
SP    == " "
None  == <<"None">>
Alpha == {"a", "b"}

Min(a, b) == IF a < b THEN a ELSE b
Max(a, b) == IF a > b THEN a ELSE b

-----------------------------------------------------------------------------
(* Python's str and list primitives, on sequences of characters.           *)

\* s[i:j] for 0 <= i, 0 <= j: both ends are clipped to len(s)
Slice(s, i, j) == SubSeq(s, Min(i, Len(s)) + 1, Min(j, Len(s)))
\* s[i:]
From(s, i) == Slice(s, i, Len(s))
\* s[:j]
Upto(s, j) == Slice(s, 0, j)
\* c * n
Repeat(c, n) == [k \in 1..n |-> c]

\* s.startswith(t, i)
startswith(s, t, i) == i + Len(t) <= Len(s) /\ SubSeq(s, i + 1, i + Len(t)) = t

\* s.find(t, start): the lowest index >= start where t occurs, or -1
find(s, t, start) ==
    LET hits == {x \in start..(Len(s) - Len(t)) : startswith(s, t, x)}
    IN  IF hits = {} THEN -1 ELSE CHOOSE x \in hits : \A z \in hits : x <= z

\* s.rfind(t, 0, end): the highest index where t occurs within s[0:end], or -1
rfind(s, t, end) ==
    LET hits == {x \in 0..(Min(end, Len(s)) - Len(t)) : startswith(s, t, x)}
    IN  IF hits = {} THEN -1 ELSE CHOOSE x \in hits : \A z \in hits : x >= z

\* text.split('\n')
RECURSIVE split(_)
split(text) ==
    LET nls == {i \in 1..Len(text) : text[i] = NL}
    IN  IF nls = {} THEN <<text>>
        ELSE LET i == CHOOSE k \in nls : \A z \in nls : k <= z
             IN  <<SubSeq(text, 1, i - 1)>> \o split(SubSeq(text, i + 1, Len(text)))

\* '\n'.join(parts)
RECURSIVE join(_)
join(parts) ==
    IF parts = <<>> THEN <<>>
    ELSE IF Len(parts) = 1 THEN parts[1]
    ELSE parts[1] \o <<NL>> \o join(Tail(parts))


\* line.count(sub): the non-overlapping occurrences, scanning left to right;
\* the empty string occurs len(line) + 1 times
RECURSIVE count(_, _)
count(line, sub) ==
    IF sub = <<>> THEN Len(line) + 1
    ELSE LET x == find(line, sub, 0)
         IN  IF x = -1 THEN 0 ELSE 1 + count(From(line, x + Len(sub)), sub)

\* line.replace(search, replace) for a non-empty search string
RECURSIVE replace_nonempty(_, _, _)
replace_nonempty(line, search, replace) ==
    LET x == find(line, search, 0)
    IN  IF x = -1 THEN line
        ELSE Upto(line, x) \o replace
             \o replace_nonempty(From(line, x + Len(search)), search, replace)

\* line.replace('', replace): replace goes before every character and at the end
RECURSIVE replace_empty(_, _)
replace_empty(line, replace) ==
    IF line = <<>> THEN replace
    ELSE replace \o <<Head(line)>> \o replace_empty(Tail(line), replace)

\* line.replace(search, replace)
str_replace(line, search, replace) ==
    IF search = <<>> THEN replace_empty(line, replace)
    ELSE replace_nonempty(line, search, replace)

\* the number of leading spaces of line (the while loops of indent_line and Enter)
RECURSIVE leading_spaces(_)
leading_spaces(line) ==
    IF line # <<>> /\ Head(line) = SP THEN 1 + leading_spaces(Tail(line)) ELSE 0

\* line.lstrip(); the whitespace of the model's alphabet is the space
lstrip(line) == From(line, leading_spaces(line))

\* the number of characters of line that belong to set
count_in(line, set) == Cardinality({i \in 1..Len(line) : line[i] \in set})

-----------------------------------------------------------------------------
(* The editor object.  An operation takes `self` and returns the new       *)
(* `self` with the value the Python method returns.                        *)

Self == [lines |-> lines, cursor_x |-> cursor_x, cursor_y |-> cursor_y,
         modified |-> modified, read_only |-> read_only,
         clipboard |-> clipboard, search_term |-> search_term, exc |-> exc]

Result(self, value) == [self |-> self, ret |-> value]

\* self.lines[y] raises IndexError for y >= len(self.lines); nothing catches it
IndexError(self) == Result([self EXCEPT !.exc = TRUE], None)

RowOK(self, y) == 0 <= y /\ y < Len(self.lines)
Row(self, y)   == self.lines[y + 1]
SetRow(self, y, line) == [self EXCEPT !.lines[y + 1] = line]

\* insert_text leaving the cursor after the whole of the new last line
\* (len(last_line) for len(lines[-1])) and a one-line insert not moving it
insert_text_cursor_after_tail(self, text) ==
    IF self.read_only THEN Result(self, None)
    ELSE IF ~RowOK(self, self.cursor_y) THEN IndexError(self)
    ELSE
    LET segs == split(text)
        cur  == Row(self, self.cursor_y)
    IN  IF Len(segs) = 1
        THEN Result([self EXCEPT
                 !.lines[self.cursor_y + 1] =
                     Upto(cur, self.cursor_x) \o text \o From(cur, self.cursor_x),
                 !.modified = TRUE], None)
        ELSE LET first_line == Upto(cur, self.cursor_x) \o segs[1]
                 last_line  == segs[Len(segs)] \o From(cur, self.cursor_x)
             IN  Result([self EXCEPT
                     !.lines = Upto(self.lines, self.cursor_y)
                               \o <<first_line>> \o SubSeq(segs, 2, Len(segs) - 1)
                               \o <<last_line>>
                               \o From(self.lines, self.cursor_y + 1),
                     !.cursor_y = self.cursor_y + Len(segs) - 1,
                     !.cursor_x = Len(last_line),
                     !.modified = TRUE], None)

\* TextEditor.insert_text
insert_text(self, text) ==
    IF self.read_only THEN Result(self, None)
    ELSE IF ~RowOK(self, self.cursor_y) THEN IndexError(self)
    ELSE
    LET segs == split(text)
        cur  == Row(self, self.cursor_y)
    IN  IF Len(segs) = 1
        THEN Result([self EXCEPT
                 !.lines[self.cursor_y + 1] =
                     Upto(cur, self.cursor_x) \o text \o From(cur, self.cursor_x),
                 !.cursor_x = self.cursor_x + Len(text),
                 !.modified = TRUE], None)
        ELSE LET first_line   == Upto(cur, self.cursor_x) \o segs[1]
                 last_line    == segs[Len(segs)] \o From(cur, self.cursor_x)
                 middle_lines == IF Len(segs) > 2
                                 THEN SubSeq(segs, 2, Len(segs) - 1) ELSE <<>>
                 new_lines    == Upto(self.lines, self.cursor_y)
                                 \o <<first_line>> \o middle_lines \o <<last_line>>
                                 \o From(self.lines, self.cursor_y + 1)
             IN  Result([self EXCEPT
                     !.lines = new_lines,
                     !.cursor_y = self.cursor_y + Len(segs) - 1,
                     !.cursor_x = Len(segs[Len(segs)]),
                     !.modified = TRUE], None)

\* [self.lines[i] for i in range(a, b)]
rows_in_range(self, a, b) == SubSeq(self.lines, a + 1, b)

\* the assignment `self.cursor_x, self.cursor_y = start` of delete_selection
cursor_to_start(self, start) ==
    [self EXCEPT !.cursor_x = start[1], !.cursor_y = start[2]]

\* TextEditor.delete_selection; start and end are (row, column) pairs
delete_selection(self, start, end) ==
    IF start = end THEN Result(self, <<>>)
    ELSE IF start[1] = end[1]
    THEN LET row == Row(self, start[1])
             deleted == Slice(row, start[2], end[2])
             cut == SetRow(self, start[1], Upto(row, start[2]) \o From(row, end[2]))
         IN  Result([cursor_to_start(cut, start) EXCEPT !.modified = TRUE], deleted)
    ELSE LET first_part == Upto(Row(self, start[1]), start[2])
             last_part  == From(Row(self, end[1]), end[2])
             middle_parts == rows_in_range(self, start[1] + 1, end[1])
             deleted    == From(Row(self, start[1]), start[2]) \o <<NL>>
                           \o join(middle_parts) \o <<NL>>
                           \o Upto(Row(self, end[1]), end[2])
             cut == [self EXCEPT !.lines =
                        Upto(self.lines, start[1]) \o <<first_part \o last_part>>
                        \o From(self.lines, end[1] + 1)]
         IN  Result([cursor_to_start(cut, start) EXCEPT !.modified = TRUE], deleted)

\* TextEditor.get_selection
get_selection(self, start, end) ==
    IF start = end THEN Result(self, <<>>)
    ELSE IF start[1] = end[1]
    THEN Result(self, Slice(Row(self, start[1]), start[2], end[2]))
    ELSE LET first_part   == From(Row(self, start[1]), start[2])
             middle_parts == rows_in_range(self, start[1] + 1, end[1])
             last_part    == Upto(Row(self, end[1]), end[2])
         IN  Result(self, first_part \o <<NL>> \o join(middle_parts)
                          \o <<NL>> \o last_part)

\* the least and the greatest element of a non-empty set of integers
Least(S)    == CHOOSE x \in S : \A z \in S : x <= z
Greatest(S) == CHOOSE x \in S : \A z \in S : x >= z

\* the two loops of find_next, from row start_y and column start_x
find_next_loops(self, term, start_y, start_x) ==
    LET n == Len(self.lines)
        \* the first loop: rows start_y .. n-1, the first of them from start_x
        fwd == {y \in start_y..(n - 1) :
                   find(Row(self, y), term, IF y = start_y THEN start_x ELSE 0) # -1}
        \* the second loop: rows 0 .. start_y, each from column 0
        wrap == {y \in 0..Min(start_y, n - 1) : find(Row(self, y), term, 0) # -1}
    IN  IF fwd # {}
        THEN LET y == Least(fwd)
             IN  Result(self, <<y, find(Row(self, y), term,
                                        IF y = start_y THEN start_x ELSE 0)>>)
        ELSE IF wrap # {}
        THEN LET y == Least(wrap)
             IN  Result(self, <<y, find(Row(self, y), term, 0)>>)
        ELSE IF start_y >= n THEN IndexError(self)
        ELSE Result(self, None)

\* find_next starting at the cursor column itself (start_x = cursor_x)
find_next_from_cursor(self, term) ==
    IF term = <<>> THEN Result(self, None)
    ELSE find_next_loops(self, term, self.cursor_y, self.cursor_x)

\* find_next starting past the whole term (start_x = cursor_x + len(term))
find_next_past_term(self, term) ==
    IF term = <<>> THEN Result(self, None)
    ELSE find_next_loops(self, term, self.cursor_y, self.cursor_x + Len(term))

\* find_next that also moves the cursor to the match, as show_find_dialog does
find_next_moving_cursor(self, term) ==
    LET res == IF term = <<>> THEN Result(self, None)
               ELSE find_next_loops(self, term, self.cursor_y, self.cursor_x + 1)
    IN  IF res.ret = None THEN res
        ELSE Result([res.self EXCEPT !.cursor_y = res.ret[1],
                                     !.cursor_x = res.ret[2]], res.ret)

\* TextEditor.find_next: the (row, column) found, or None
find_next(self, term) ==
    IF term = <<>> THEN Result(self, None)
    ELSE find_next_loops(self, term, self.cursor_y, self.cursor_x + 1)

\* the two loops of find_prev, from row start_y and column start_x
find_prev_loops(self, term, start_y, start_x) ==
    IF ~RowOK(self, start_y) THEN IndexError(self)
    ELSE
    LET n == Len(self.lines)
        search_end(y) == IF y = start_y THEN start_x + Len(term)
                         ELSE Len(Row(self, y))
        \* the first loop: rows start_y down to 0
        back == {y \in 0..start_y : rfind(Row(self, y), term, search_end(y)) # -1}
        \* the second loop: rows n-1 down to start_y, each to its end
        wrap == {y \in start_y..(n - 1) :
                    rfind(Row(self, y), term, Len(Row(self, y))) # -1}
    IN  IF back # {}
        THEN LET y == Greatest(back)
             IN  Result(self, <<y, rfind(Row(self, y), term, search_end(y))>>)
        ELSE IF wrap # {}
        THEN LET y == Greatest(wrap)
             IN  Result(self, <<y, rfind(Row(self, y), term, Len(Row(self, y)))>>)
        ELSE Result(self, None)

\* find_prev ending at the cursor column itself (start_x = cursor_x)
find_prev_from_cursor(self, term) ==
    IF term = <<>> THEN Result(self, None)
    ELSE find_prev_loops(self, term, self.cursor_y, self.cursor_x)

\* TextEditor.find_prev: the (row, column) found, or None
find_prev(self, term) ==
    IF term = <<>> THEN Result(self, None)
    ELSE find_prev_loops(self, term, self.cursor_y, self.cursor_x - 1)

\* replace_next leaving the cursor after the searched text instead of after
\* the replacement (cursor_x = x + len(search))
replace_next_cursor_after_search(self, search, replace) ==
    LET found == find_next(self, search)
    IN  IF found.self.exc THEN found
        ELSE IF found.ret = None THEN Result(self, FALSE)
        ELSE LET y == found.ret[1]
                 x == found.ret[2]
                 row == Row(self, y)
             IN  Result([self EXCEPT
                     !.lines[y + 1] =
                         Upto(row, x) \o replace \o From(row, x + Len(search)),
                     !.cursor_y = y,
                     !.cursor_x = x + Len(search),
                     !.modified = TRUE], TRUE)

\* TextEditor.replace_next
replace_next(self, search, replace) ==
    LET found == find_next(self, search)
    IN  IF found.self.exc THEN found
        ELSE IF found.ret = None THEN Result(self, FALSE)
        ELSE LET y == found.ret[1]
                 x == found.ret[2]
                 row == Row(self, y)
             IN  Result([self EXCEPT
                     !.lines[y + 1] =
                         Upto(row, x) \o replace \o From(row, x + Len(search)),
                     !.cursor_y = y,
                     !.cursor_x = x + Len(replace),
                     !.modified = TRUE], TRUE)

\* the running count of replace_all after rows 0 .. k-1
RECURSIVE replace_all_count(_, _, _, _)
replace_all_count(rows, search, replace, k) ==
    IF k = 0 THEN 0
    ELSE replace_all_count(rows, search, replace, k - 1)
         + (IF str_replace(rows[k], search, replace) # rows[k]
            THEN count(rows[k], search) ELSE 0)

\* line.replace(search, replace, 1): only the first occurrence
replace_first(line, search, replace) ==
    LET x == find(line, search, 0)
    IN  IF x = -1 THEN line
        ELSE Upto(line, x) \o replace \o From(line, x + Len(search))

\* replace_all replacing only the first occurrence of each line
replace_all_first_only(self, search, replace) ==
    LET n == replace_all_count(self.lines, search, replace, Len(self.lines))
        new_lines == [k \in 1..Len(self.lines) |->
                         replace_first(self.lines[k], search, replace)]
    IN  Result([self EXCEPT !.lines = new_lines,
                            !.modified = IF n > 0 THEN TRUE ELSE self.modified], n)

\* TextEditor.replace_all: the number of replacements
replace_all(self, search, replace) ==
    LET n == replace_all_count(self.lines, search, replace, Len(self.lines))
        new_lines == [k \in 1..Len(self.lines) |->
                         str_replace(self.lines[k], search, replace)]
    IN  Result([self EXCEPT !.lines = new_lines,
                            !.modified = IF n > 0 THEN TRUE ELSE self.modified], n)

\* indent_line removing -amount * tab_size characters whatever they are
\* (line[-amount * tab_size:])
indent_line_strips_chars(self, y, amount) ==
    IF self.read_only THEN Result(self, None)
    ELSE IF amount # 0 /\ ~RowOK(self, y) THEN IndexError(self)
    ELSE IF amount > 0
    THEN Result([SetRow(self, y, Repeat(SP, tab_size * amount) \o Row(self, y))
                    EXCEPT !.modified = TRUE], None)
    ELSE IF amount < 0
    THEN Result([SetRow(self, y, From(Row(self, y), (-amount) * tab_size))
                    EXCEPT !.modified = TRUE], None)
    ELSE Result([self EXCEPT !.modified = TRUE], None)

\* TextEditor.indent_line
indent_line(self, y, amount) ==
    IF self.read_only THEN Result(self, None)
    ELSE IF amount # 0 /\ ~RowOK(self, y) THEN IndexError(self)
    ELSE IF amount > 0
    THEN Result([SetRow(self, y, Repeat(SP, tab_size * amount) \o Row(self, y))
                    EXCEPT !.modified = TRUE], None)
    ELSE IF amount < 0
    THEN LET line   == Row(self, y)
             spaces == leading_spaces(line)
             remove_spaces == Min((-amount) * tab_size, spaces)
         IN  Result([SetRow(self, y, From(line, remove_spaces))
                        EXCEPT !.modified = TRUE], None)
    ELSE Result([self EXCEPT !.modified = TRUE], None)

\* what happens to open(filename, 'w') and f.write: both succeed, open
\* raises, or open truncates the file and the write raises
IOOutcomes == {"ok", "open_fails", "write_fails"}

\* save_file that clears modified before it writes
save_file_clears_modified_first(self, disk, io, n) ==
    IF self.read_only THEN [self |-> self, ret |-> FALSE, file |-> disk]
    ELSE IF io = "open_fails"
    THEN [self |-> [self EXCEPT !.modified = FALSE], ret |-> FALSE, file |-> disk]
    ELSE IF io = "write_fails"
    THEN [self |-> [self EXCEPT !.modified = FALSE], ret |-> FALSE,
          file |-> Upto(join(self.lines), n)]
    ELSE [self |-> [self EXCEPT !.modified = FALSE], ret |-> TRUE,
          file |-> join(self.lines)]

\* TextEditor.save_file on a file whose text is disk: the new self, the value
\* returned and the text of the file afterwards; when the write raises, the
\* first n characters have reached the file
save_file(self, disk, io, n) ==
    IF self.read_only THEN [self |-> self, ret |-> FALSE, file |-> disk]
    ELSE IF io = "open_fails" THEN [self |-> self, ret |-> FALSE, file |-> disk]
    ELSE IF io = "write_fails"
    THEN [self |-> self, ret |-> FALSE, file |-> Upto(join(self.lines), n)]
    ELSE [self |-> [self EXCEPT !.modified = FALSE], ret |-> TRUE,
          file |-> join(self.lines)]

-----------------------------------------------------------------------------
(* TextEditor.handle_input, one operator per key.  Each returns the new    *)
(* `self`.                                                                 *)

\* curses.KEY_UP
key_up(self) ==
    IF self.cursor_y > 0
    THEN IF ~RowOK(self, self.cursor_y - 1) THEN IndexError(self).self
         ELSE [self EXCEPT
                  !.cursor_y = self.cursor_y - 1,
                  !.cursor_x = Min(self.cursor_x, Len(Row(self, self.cursor_y - 1)))]
    ELSE self

\* curses.KEY_DOWN
key_down(self) ==
    IF self.cursor_y < Len(self.lines) - 1
    THEN [self EXCEPT
             !.cursor_y = self.cursor_y + 1,
             !.cursor_x = Min(self.cursor_x, Len(Row(self, self.cursor_y + 1)))]
    ELSE self

\* KEY_LEFT that stays at column 0 instead of wrapping to the previous line
key_left_no_wrap(self) ==
    IF self.cursor_x > 0 THEN [self EXCEPT !.cursor_x = self.cursor_x - 1]
    ELSE self

\* curses.KEY_LEFT
key_left(self) ==
    IF self.cursor_x > 0 THEN [self EXCEPT !.cursor_x = self.cursor_x - 1]
    ELSE IF self.cursor_y > 0
    THEN IF ~RowOK(self, self.cursor_y - 1) THEN IndexError(self).self
         ELSE [self EXCEPT !.cursor_y = self.cursor_y - 1,
                           !.cursor_x = Len(Row(self, self.cursor_y - 1))]
    ELSE self

\* curses.KEY_RIGHT
key_right(self) ==
    IF ~RowOK(self, self.cursor_y) THEN IndexError(self).self
    ELSE IF self.cursor_x < Len(Row(self, self.cursor_y))
    THEN [self EXCEPT !.cursor_x = self.cursor_x + 1]
    ELSE IF self.cursor_y < Len(self.lines) - 1
    THEN [self EXCEPT !.cursor_y = self.cursor_y + 1, !.cursor_x = 0]
    ELSE self

\* curses.KEY_HOME and Ctrl+A
key_home(self) == [self EXCEPT !.cursor_x = 0]

\* curses.KEY_END and Ctrl+E
key_end(self) ==
    IF ~RowOK(self, self.cursor_y) THEN IndexError(self).self
    ELSE [self EXCEPT !.cursor_x = Len(Row(self, self.cursor_y))]

\* curses.KEY_PPAGE; screen_height is the terminal's height, set by render;
\* cursor_y is assigned before self.lines[self.cursor_y] is read
key_ppage(self, screen_height) ==
    LET y == Max(0, self.cursor_y - (screen_height - 2))
    IN  IF ~RowOK(self, y) THEN IndexError([self EXCEPT !.cursor_y = y]).self
        ELSE [self EXCEPT !.cursor_y = y,
                          !.cursor_x = Min(self.cursor_x, Len(Row(self, y)))]

\* self.lines[y] for a Python index y: a negative y counts from the end
PyRowOK(self, y) == -Len(self.lines) <= y /\ y < Len(self.lines)
PyRow(self, y)   == IF y < 0 THEN self.lines[Len(self.lines) + y + 1]
                    ELSE self.lines[y + 1]

\* curses.KEY_NPAGE; cursor_y is assigned before self.lines[self.cursor_y] is
\* read, and a row below 0 reads a line from the end
key_npage(self, screen_height) ==
    LET y == Min(Len(self.lines) - 1, self.cursor_y + (screen_height - 2))
    IN  IF ~PyRowOK(self, y) THEN IndexError([self EXCEPT !.cursor_y = y]).self
        ELSE [self EXCEPT !.cursor_y = y,
                          !.cursor_x = Min(self.cursor_x, Len(PyRow(self, y)))]

\* key 10, Enter, with self.auto_indent = True
key_enter(self) ==
    IF self.read_only THEN self
    ELSE IF ~RowOK(self, self.cursor_y) THEN IndexError(self).self
    ELSE
    LET rest == From(Row(self, self.cursor_y), self.cursor_x)
        line == Upto(Row(self, self.cursor_y), self.cursor_x)
        open_braces  == count_in(line, {"(", "[", "{"})
        close_braces == count_in(line, {")", "]", "}"})
        indent == leading_spaces(line)
                  + (IF open_braces > close_braces THEN tab_size ELSE 0)
        new_line == Repeat(SP, indent) \o lstrip(rest)
    IN  [self EXCEPT
            !.lines = Upto(self.lines, self.cursor_y) \o <<line, new_line>>
                      \o From(self.lines, self.cursor_y + 1),
            !.cursor_y = self.cursor_y + 1,
            !.cursor_x = Len(new_line) - Len(lstrip(new_line)),
            !.modified = TRUE]

\* curses.KEY_BACKSPACE and key 127
key_backspace(self) ==
    IF self.read_only THEN self
    ELSE IF self.cursor_x > 0
    THEN IF ~RowOK(self, self.cursor_y) THEN IndexError(self).self
         ELSE
         LET line == Row(self, self.cursor_y)
         IN  IF self.cursor_x >= tab_size
                /\ Slice(line, self.cursor_x - tab_size, self.cursor_x)
                   = Repeat(SP, tab_size)
             THEN [self EXCEPT
                      !.lines[self.cursor_y + 1] =
                          Upto(line, self.cursor_x - tab_size)
                          \o From(line, self.cursor_x),
                      !.cursor_x = self.cursor_x - tab_size,
                      !.modified = TRUE]
             ELSE [self EXCEPT
                      !.lines[self.cursor_y + 1] =
                          Upto(line, self.cursor_x - 1) \o From(line, self.cursor_x),
                      !.cursor_x = self.cursor_x - 1,
                      !.modified = TRUE]
    ELSE IF self.cursor_y > 0
    THEN IF ~RowOK(self, self.cursor_y) THEN IndexError(self).self
         ELSE
         LET old_x == Len(Row(self, self.cursor_y - 1))
         IN  [self EXCEPT
                 !.lines = Upto(self.lines, self.cursor_y - 1)
                           \o <<Row(self, self.cursor_y - 1)
                                \o Row(self, self.cursor_y)>>
                           \o From(self.lines, self.cursor_y + 1),
                 !.cursor_y = self.cursor_y - 1,
                 !.cursor_x = old_x,
                 !.modified = TRUE]
    ELSE self

\* curses.KEY_DC, Delete
key_delete(self) ==
    IF self.read_only THEN self
    ELSE IF ~RowOK(self, self.cursor_y) THEN IndexError(self).self
    ELSE IF self.cursor_x < Len(Row(self, self.cursor_y))
    THEN [self EXCEPT
             !.lines[self.cursor_y + 1] =
                 Upto(Row(self, self.cursor_y), self.cursor_x)
                 \o From(Row(self, self.cursor_y), self.cursor_x + 1),
             !.modified = TRUE]
    ELSE IF self.cursor_y < Len(self.lines) - 1
    THEN [self EXCEPT
             !.lines = Upto(self.lines, self.cursor_y)
                       \o <<Row(self, self.cursor_y) \o Row(self, self.cursor_y + 1)>>
                       \o From(self.lines, self.cursor_y + 2),
             !.modified = TRUE]
    ELSE self

\* key 9, Tab
key_tab(self) ==
    IF self.read_only THEN self
    ELSE insert_text(self, Repeat(SP, tab_size - (self.cursor_x % tab_size))).self

\* `del self.lines[y]` without the `if not self.lines` that follows
lines_after_cut_not_refilled(rows, y) == Upto(rows, y) \o From(rows, y + 1)

\* the buffer after `del self.lines[y]` and the `if not self.lines` that follows
lines_after_cut(rows, y) ==
    LET rest == Upto(rows, y) \o From(rows, y + 1)
    IN  IF rest = <<>> THEN << <<>> >> ELSE rest

\* key 24, Ctrl+X: cut line
key_cut_line(self) ==
    IF self.read_only THEN self
    ELSE IF ~RowOK(self, self.cursor_y) THEN IndexError(self).self
    ELSE LET rest == lines_after_cut(self.lines, self.cursor_y)
         IN  [self EXCEPT
                 !.clipboard = <<Row(self, self.cursor_y)>>,
                 !.lines = rest,
                 !.cursor_x = 0,
                 !.cursor_y = IF self.cursor_y >= Len(rest) THEN Len(rest) - 1
                              ELSE self.cursor_y,
                 !.modified = TRUE]

\* key 3, Ctrl+C: copy line
key_copy_line(self) ==
    IF ~RowOK(self, self.cursor_y) THEN IndexError(self).self
    ELSE [self EXCEPT !.clipboard = <<Row(self, self.cursor_y)>>]

\* keys 22 and 25, Ctrl+V and Ctrl+Y: paste
key_paste(self) ==
    IF ~self.read_only /\ self.clipboard # <<>>
    THEN insert_text(self, join(self.clipboard)).self
    ELSE self

\* key 11, Ctrl+K: cut to end of line
key_cut_to_eol(self) ==
    IF self.read_only THEN self
    ELSE IF ~RowOK(self, self.cursor_y) THEN IndexError(self).self
    ELSE [self EXCEPT
             !.clipboard = <<From(Row(self, self.cursor_y), self.cursor_x)>>,
             !.lines[self.cursor_y + 1] = Upto(Row(self, self.cursor_y), self.cursor_x),
             !.modified = TRUE]

\* Ctrl+D that does not set modified
key_duplicate_line_unflagged(self) ==
    IF self.read_only THEN self
    ELSE IF ~RowOK(self, self.cursor_y) THEN IndexError(self).self
    ELSE [self EXCEPT
             !.lines = Upto(self.lines, self.cursor_y + 1)
                       \o <<Row(self, self.cursor_y)>>
                       \o From(self.lines, self.cursor_y + 1),
             !.cursor_y = self.cursor_y + 1]

\* key 4, Ctrl+D
key_duplicate_line(self) ==
    IF self.read_only THEN self
    ELSE IF ~RowOK(self, self.cursor_y) THEN IndexError(self).self
    ELSE [self EXCEPT
             !.lines = Upto(self.lines, self.cursor_y + 1)
                       \o <<Row(self, self.cursor_y)>>
                       \o From(self.lines, self.cursor_y + 1),
             !.cursor_y = self.cursor_y + 1,
             !.modified = TRUE]

\* keys 29 and 31, Ctrl+] and Ctrl+/: indent right (amount 1), left (amount -1)
key_indent(self, amount) ==
    IF self.read_only THEN self ELSE indent_line(self, self.cursor_y, amount).self

\* keys 32..126 and >= 128: a printable character
key_char(self, c) ==
    IF self.read_only THEN self ELSE insert_text(self, <<c>>).self

\* the keys stdscr.getch() can return after the "Unsaved changes!" message
SecondKeys == {"Ctrl+Q", "Ctrl+S", "other"}

\* Ctrl+Q that quits after Ctrl+S whatever save_file returns
key_quit_ignores_save_result(self, disk, second, io, n) ==
    IF ~self.modified
    THEN [self |-> self, ret |-> FALSE, file |-> disk, saved |-> FALSE]
    ELSE IF second = "Ctrl+S"
    THEN LET res == save_file(self, disk, io, n)
         IN  [self |-> res.self, ret |-> FALSE, file |-> res.file,
              saved |-> res.ret]
    ELSE IF second = "Ctrl+Q"
    THEN [self |-> self, ret |-> FALSE, file |-> disk, saved |-> FALSE]
    ELSE [self |-> self, ret |-> TRUE, file |-> disk, saved |-> FALSE]

\* key 17, Ctrl+Q: ret is what handle_input returns, False to leave main's
\* loop; with unsaved changes the handler reads a second key itself, and
\* that key is not handled any further
key_quit(self, disk, second, io, n) ==
    IF ~self.modified
    THEN [self |-> self, ret |-> FALSE, file |-> disk, saved |-> FALSE]
    ELSE IF second = "Ctrl+S"
    THEN LET res == save_file(self, disk, io, n)
         IN  [self |-> res.self, ret |-> ~res.ret, file |-> res.file,
              saved |-> res.ret]
    ELSE IF second = "Ctrl+Q"
    THEN [self |-> self, ret |-> FALSE, file |-> disk, saved |-> FALSE]
    ELSE [self |-> self, ret |-> TRUE, file |-> disk, saved |-> FALSE]

\* TextEditor.show_find_dialog, term being the string typed into the dialog
show_find_dialog(self, term) ==
    IF term = <<>> THEN Result(self, None)
    ELSE LET searching == [self EXCEPT !.search_term = term]
             found     == find_next(searching, term)
         IN  IF found.self.exc \/ found.ret = None THEN found
             ELSE Result([searching EXCEPT !.cursor_y = found.ret[1],
                                           !.cursor_x = found.ret[2]], found.ret)

\* TextEditor.show_replace_dialog, replace being the string typed into the dialog
show_replace_dialog(self, replace) ==
    replace_next(self, self.search_term, replace)

\* TextEditor.show_goto_dialog for a typed integer n (line_num = n - 1)
show_goto_dialog(self, n) ==
    IF 0 <= n - 1 /\ n - 1 < Len(self.lines)
    THEN [self EXCEPT !.cursor_y = n - 1, !.cursor_x = 0]
    ELSE self

-----------------------------------------------------------------------------
(* Input domains.                                                          *)

\* the strings over alphabet of at most n characters
Strs(alphabet, n) == UNION {[1..k -> alphabet] : k \in 0..n}

RECURSIVE TotalLen(_)
TotalLen(rows) == IF rows = <<>> THEN 0 ELSE Len(Head(rows)) + TotalLen(Tail(rows))

\* the buffers of 1 .. MaxLines rows holding at most MaxChars characters
Buffers ==
    {b \in UNION {[1..k -> Strs(Alpha, MaxChars)] : k \in 1..MaxLines} :
        TotalLen(b) <= MaxChars}

\* the in-bounds positions (row, column) of a buffer
Positions(rows) ==
    UNION {{<<y, x>> : x \in 0..Len(rows[y + 1])} : y \in 0..(Len(rows) - 1)}

\* document order on positions
Before(p, q)   == p[1] < q[1] \/ (p[1] = q[1] /\ p[2] < q[2])
NotAfter(p, q) == p = q \/ Before(p, q)

\* the selections (start, end) of a buffer, start <= end
Selections(rows) ==
    {s \in Positions(rows) \X Positions(rows) : NotAfter(s[1], s[2])}

\* the texts given to insert_text
Texts == Strs({"c", NL}, MaxText)

-----------------------------------------------------------------------------
(* State changes shared by the actions.                                    *)

Commit(self) ==
    /\ lines' = self.lines
    /\ cursor_x' = self.cursor_x
    /\ cursor_y' = self.cursor_y
    /\ modified' = self.modified
    /\ read_only' = self.read_only
    /\ clipboard' = self.clipboard
    /\ search_term' = self.search_term
    /\ exc' = self.exc

\* the caller's record of a call: its name and arguments, and what it returned
Called(name, args, res, next_pc) ==
    /\ Commit(res.self)
    /\ call' = <<name>> \o args
    /\ ret' = res.ret
    /\ trail' = Append(trail, res.ret)
    /\ pc' = next_pc
    /\ UNCHANGED <<orig, steps, file, saved_lines, scan, macro_recording,
                   macro_commands, loops>>

\* a run that starts from buffer rows with the cursor at pos
StartFrom(rows, pos, ro) ==
    /\ lines = rows
    /\ cursor_y = pos[1]
    /\ cursor_x = pos[2]
    /\ modified = FALSE
    /\ read_only = ro
    /\ clipboard = <<>>
    /\ search_term = <<>>
    /\ file = None
    /\ saved_lines = rows
    /\ scan = None
    /\ macro_recording = FALSE
    /\ macro_commands = <<>>
    /\ loops = <<>>
    /\ exc = FALSE
    /\ call = <<"init">>
    /\ ret = None
    /\ trail = <<>>
    /\ pc = "start"
    /\ steps = 0
    /\ orig = [lines |-> rows, cursor_x |-> pos[2], cursor_y |-> pos[1],
               modified |-> FALSE, read_only |-> ro, clipboard |-> <<>>,
               search_term |-> <<>>, exc |-> FALSE]

-----------------------------------------------------------------------------
(* SpecSel: insert_text, get_selection and delete_selection called on any  *)
(* buffer, at any cursor, with any in-bounds selection:                    *)
(*   start -get_selection(s)-> got -delete_selection(s)-> cut              *)
(*         -insert_text at s.start-> pasted                                *)
(*   start -delete_selection(s)-> deleted                                  *)
(*   start -insert_text(T)-> inserted -delete_selection(p, p+|T|)-> undone *)

InitSel ==
    \E rows \in Buffers : \E pos \in Positions(rows) : \E ro \in BOOLEAN :
        StartFrom(rows, pos, ro)

GetSelection ==
    /\ pc = "start"
    /\ \E s \in Selections(lines) :
          Called("get_selection", <<s[1], s[2]>>,
                 get_selection(Self, s[1], s[2]), "got")

DeleteSelection ==
    /\ pc = "start"
    /\ \E s \in Selections(lines) :
          Called("delete_selection", <<s[1], s[2]>>,
                 delete_selection(Self, s[1], s[2]), "deleted")

\* the selection just read is deleted
CutSelection ==
    /\ pc = "got"
    /\ Called("delete_selection", <<call[2], call[3]>>,
              delete_selection(Self, call[2], call[3]), "cut")

\* the caller puts the cursor at the start of the selection just cut and
\* inserts the text get_selection returned
PasteBack ==
    /\ pc = "cut"
    /\ LET start == call[2]
           at    == [Self EXCEPT !.cursor_y = start[1], !.cursor_x = start[2]]
       IN  Called("insert_text", <<trail[1]>>, insert_text(at, trail[1]), "pasted")

InsertText ==
    /\ pc = "start"
    /\ \E text \in Texts :
          Called("insert_text", <<text>>, insert_text(Self, text), "inserted")

\* the newline-free text just inserted at p = (row, col) is deleted again:
\* delete_selection((row, col), (row, col + |T|))
DeleteInserted ==
    /\ pc = "inserted"
    /\ NL \notin {call[2][i] : i \in 1..Len(call[2])}
    /\ LET p == <<orig.cursor_y, orig.cursor_x>>
           q == <<orig.cursor_y, orig.cursor_x + Len(call[2])>>
       IN  Called("delete_selection", <<p, q>>, delete_selection(Self, p, q), "undone")

NextSel ==
    \/ GetSelection
    \/ DeleteSelection
    \/ CutSelection
    \/ PasteBack
    \/ InsertText
    \/ DeleteInserted

SpecSel == InitSel /\ [][NextSel]_vars

-----------------------------------------------------------------------------
(* Selection and insertion claims, checked under SpecSel.                  *)

\* the offset of position p in the document text '\n'.join(rows)
RECURSIVE Offset(_, _)
Offset(rows, p) ==
    IF p[1] = 0 THEN p[2]
    ELSE Len(rows[1]) + 1 + Offset(Tail(rows), <<p[1] - 1, p[2]>>)

\* the document text between positions s and e
DocText(rows, s, e) == SubSeq(join(rows), Offset(rows, s) + 1, Offset(rows, e))

\* the number of newlines of a text
Newlines(text) == Cardinality({i \in 1..Len(text) : text[i] = NL})

\* the index of the j-th newline of text; 0 for j = 0, Len + 1 past the last
NthNewline(text, j) ==
    IF j = 0 THEN 0
    ELSE IF j > Newlines(text) THEN Len(text) + 1
    ELSE CHOOSE i \in 1..Len(text) :
             text[i] = NL /\ Newlines(SubSeq(text, 1, i)) = j

\* the j-th newline-free segment of text, j = 1 .. Newlines(text) + 1
Segment(text, j) ==
    SubSeq(text, NthNewline(text, j - 1) + 1, NthNewline(text, j) - 1)

\* C3: after delete_selection(start, end) with start < end, both in bounds,
\* the cursor row is start's row and the cursor column is start's column.
C3_CursorAtStart ==
    (pc = "deleted" /\ Before(call[2], call[3]))
        => (cursor_y = call[2][1] /\ cursor_x = call[2][2])

\* C4: for every in-bounds selection, get_selection and delete_selection
\* return the same text, that text is the document text between start and
\* end (one newline between consecutive rows), and get_selection leaves
\* lines, cursor and modified unchanged.
C4_SelectionText ==
    /\ pc = "got" =>
          /\ ret = DocText(orig.lines, call[2], call[3])
          /\ lines = orig.lines /\ cursor_x = orig.cursor_x
          /\ cursor_y = orig.cursor_y /\ modified = orig.modified
    /\ pc = "deleted" => ret = DocText(orig.lines, call[2], call[3])
    /\ pc = "cut" => trail[2] = trail[1]

\* C5: t = get_selection(s), delete_selection(s), insert_text(t) at s.start
\* restores the original sequence of lines (stated for the editor that is
\* not read-only, in which insert_text inserts).
C5_CutPasteRoundTrip ==
    (pc = "pasted" /\ ~read_only) => lines = orig.lines

\* C6: inserting a newline-free text T with the cursor at p = (row, col) and
\* then delete_selection((row, col), (row, col + |T|)) yields the original
\* sequence of lines, for every buffer, position and text.
C6_InsertDeleteInverse ==
    pc = "undone" => lines = orig.lines

\* The same round trip in the editor that is not read-only.
InsertDeleteInverseWritable ==
    (pc = "undone" /\ ~read_only) => lines = orig.lines

\* C7: insert_text of a text with k newlines at cursor (row, col), not
\* read-only: the line count grows by k; for k >= 1 row `row` is
\* old[:col] + first segment, row `row + k` is last segment + old[col:], the
\* middle segments are rows row+1 .. row+k-1, the other lines keep content
\* and order, the cursor ends at (row + k, length of last segment); for
\* k = 0 the cursor column grows by the text length; modified is true.
C7_InsertText ==
    (pc = "inserted" /\ ~read_only) =>
        LET text == call[2]
            row  == orig.cursor_y
            col  == orig.cursor_x
            old  == orig.lines
            k    == Newlines(text)
        IN  /\ modified
            /\ Len(lines) = Len(old) + k
            /\ \A i \in 0..(row - 1) : lines[i + 1] = old[i + 1]
            /\ \A i \in (row + 1)..(Len(old) - 1) : lines[i + k + 1] = old[i + 1]
            /\ k = 0 => /\ cursor_y = row
                        /\ cursor_x = col + Len(text)
            /\ k >= 1 =>
                  /\ lines[row + 1] = Upto(old[row + 1], col) \o Segment(text, 1)
                  /\ lines[row + k + 1] =
                         Segment(text, k + 1) \o From(old[row + 1], col)
                  /\ \A j \in 1..(k - 1) : lines[row + j + 1] = Segment(text, j + 1)
                  /\ cursor_y = row + k
                  /\ cursor_x = Len(Segment(text, k + 1))

\* C7 witness: a text with two newlines and a middle segment was inserted in
\* the middle of a line that has lines before and after it.
C7_Witness ==
    /\ pc = "inserted" /\ ~read_only
    /\ call[2] = <<NL, "c", NL>>
    /\ orig.cursor_y = 1 /\ orig.cursor_x = 1
    /\ Len(orig.lines) = 3 /\ Len(orig.lines[2]) = 2

-----------------------------------------------------------------------------
(* SpecFind: find_next and find_prev called on any buffer, at any in-bounds *)
(* cursor, with any term; and the find dialog opened again and again with  *)
(* one term, which moves the cursor to each position find_next returns:    *)
(*   start -find_next(term)-> found                                        *)
(*   start -find_prev(term)-> found_prev                                   *)
(*   start -show_find_dialog(term)-> cycling -show_find_dialog(term)-> ... *)
(*                                 or miss                                 *)

Terms == Strs(Alpha, MaxTerm)

InitFind ==
    \E rows \in Buffers : \E pos \in Positions(rows) : StartFrom(rows, pos, FALSE)

FindNext ==
    /\ pc = "start"
    /\ \E term \in Terms :
          Called("find_next", <<term>>, find_next(Self, term), "found")

FindPrev ==
    /\ pc = "start"
    /\ \E term \in Terms :
          Called("find_prev", <<term>>, find_prev(Self, term), "found_prev")

\* the first search of a cycle
FindFirst ==
    /\ pc = "start"
    /\ \E term \in Terms \ {<<>>} :
          LET res == show_find_dialog(Self, term)
          IN  Called("show_find_dialog", <<term>>, res,
                     IF res.ret = None THEN "miss" ELSE "cycling")

\* the cycle has come back to the first position found
Closed == Len(trail) >= 2 /\ trail[Len(trail)] = trail[1]

\* the same term is searched again from the position just found, until the
\* first position found is returned again; a buffer of n characters holds at
\* most n occurrences of a term
FindAgain ==
    /\ pc = "cycling"
    /\ ~Closed
    /\ Len(trail) <= TotalLen(lines)
    /\ Called("show_find_dialog", <<call[2]>>,
              show_find_dialog(Self, call[2]), "cycling")

NextFind ==
    \/ FindNext
    \/ FindPrev
    \/ FindFirst
    \/ FindAgain

SpecFind == InitFind /\ [][NextFind]_vars

\* the start positions of the occurrences of term in rows, overlapping or not
Occurrences(rows, term) ==
    {p \in Positions(rows) : startswith(rows[p[1] + 1], term, p[2])}

\* the positions of a set on row y, and the rows of a set
OnRow(S, y) == {p \in S : p[1] = y}
RowsOf(S)   == {p[1] : p \in S}
Leftmost(S, y)  == <<y, Least({p[2] : p \in OnRow(S, y)})>>
Rightmost(S, y) == <<y, Greatest({p[2] : p \in OnRow(S, y)})>>

\* C8: from every buffer, in-bounds cursor and non-empty term that occurs,
\* calling find_next and moving the cursor to the position returned, again
\* and again, visits every occurrence of the term exactly once before the
\* first position found is returned again.
C8_FullCycle ==
    LET occ == Occurrences(orig.lines, call[2])
        n   == Len(trail)
        m   == IF Closed THEN n - 1 ELSE n
    IN  /\ pc = "miss" => occ = {}
        /\ pc = "cycling" =>
              /\ \A i \in 1..n : trail[i] \in occ
              /\ \A i, j \in 1..m : i # j => trail[i] # trail[j]
              /\ Closed => {trail[i] : i \in 1..m} = occ

\* C8 witness: the cycle over the two overlapping occurrences of "aa" in
\* "aaa", started with the cursor on the first of them, has closed.
C8_Witness ==
    /\ pc = "cycling" /\ Closed
    /\ orig.lines = << <<"a", "a", "a">> >>
    /\ orig.cursor_y = 0 /\ orig.cursor_x = 0
    /\ call[2] = <<"a", "a">>
    /\ trail = << <<0, 1>>, <<0, 0>>, <<0, 1>> >>

\* C9: find_next returns None for the empty term; otherwise the leftmost
\* occurrence on the cursor row at column >= cursor_x + 1, else the leftmost
\* occurrence on the nearest later row, else the leftmost occurrence on the
\* lowest row of 0 .. cursor row; None exactly when the term occurs nowhere.
C9_FindNext ==
    pc = "found" =>
        LET term  == call[2]
            occ   == Occurrences(orig.lines, term)
            cy    == orig.cursor_y
            cx    == orig.cursor_x
            same  == {p \in occ : p[1] = cy /\ p[2] >= cx + 1}
            later == {p \in occ : p[1] > cy}
            wrap  == {p \in occ : p[1] <= cy}
        IN  /\ term = <<>> => ret = None
            /\ term # <<>> =>
                  /\ ret = (IF same # {} THEN Leftmost(same, cy)
                            ELSE IF later # {}
                                 THEN Leftmost(later, Least(RowsOf(later)))
                            ELSE IF wrap # {}
                                 THEN Leftmost(wrap, Least(RowsOf(wrap)))
                            ELSE None)
                  /\ (ret = None) <=> (occ = {})

\* C9 witness: the search wrapped and found an occurrence on the cursor row,
\* left of the cursor, in a buffer of several rows.
C9_Witness ==
    /\ pc = "found" /\ ret # None
    /\ Len(orig.lines) >= 2
    /\ ret[1] = orig.cursor_y /\ ret[2] < orig.cursor_x

\* C10: find_prev returns None for the empty term; otherwise the rightmost
\* occurrence on the cursor row starting at column <= cursor_x - 1, else the
\* rightmost occurrence on the nearest earlier row, else the rightmost
\* occurrence on the highest row of last row .. cursor row; None exactly when
\* the term occurs nowhere.
C10_FindPrev ==
    pc = "found_prev" =>
        LET term    == call[2]
            occ     == Occurrences(orig.lines, term)
            cy      == orig.cursor_y
            cx      == orig.cursor_x
            same    == {p \in occ : p[1] = cy /\ p[2] <= cx - 1}
            earlier == {p \in occ : p[1] < cy}
            wrap    == {p \in occ : p[1] >= cy}
        IN  /\ term = <<>> => ret = None
            /\ term # <<>> =>
                  /\ ret = (IF same # {} THEN Rightmost(same, cy)
                            ELSE IF earlier # {}
                                 THEN Rightmost(earlier, Greatest(RowsOf(earlier)))
                            ELSE IF wrap # {}
                                 THEN Rightmost(wrap, Greatest(RowsOf(wrap)))
                            ELSE None)
                  /\ (ret = None) <=> (occ = {})

\* C10 witness: the search wrapped and found an occurrence on the cursor
\* row, at or right of the cursor, in a buffer of several rows.
C10_Witness ==
    /\ pc = "found_prev" /\ ret # None
    /\ Len(orig.lines) >= 2
    /\ ret[1] = orig.cursor_y /\ ret[2] >= orig.cursor_x

\* C11: find_next and find_prev are read-only: whatever the buffer, the
\* cursor and the term, and whether or not a match is found, a call leaves
\* lines, cursor_x, cursor_y and the modified flag as they were.
C11_FindReadOnly ==
    pc \in {"found", "found_prev"} =>
        /\ lines = orig.lines
        /\ cursor_x = orig.cursor_x
        /\ cursor_y = orig.cursor_y
        /\ modified = orig.modified

\* C11 witness: find_next found the term on another row than the cursor's.
C11_Witness ==
    /\ pc = "found" /\ call[1] = "find_next"
    /\ ret # None /\ ret[1] # orig.cursor_y
    /\ lines = orig.lines /\ cursor_y = orig.cursor_y

-----------------------------------------------------------------------------
(* SpecReplace: replace_next and replace_all called on any buffer, at any  *)
(* in-bounds cursor, with any search string and replacement:               *)
(*   start -replace_next(s, r)-> replaced                                  *)
(*   start -replace_all(s, r)-> replaced_all -replace_all(s, r)->          *)
(*                                                        replaced_twice   *)

\* the replacements: the empty string, one that can equal the search string
\* or end it, one that shares no character with it, and a longer one
Repls == {<<>>, <<"b">>, <<"c">>, <<"c", "b">>}

InitReplace ==
    \E rows \in Buffers : \E pos \in Positions(rows) : StartFrom(rows, pos, FALSE)

ReplaceNext ==
    /\ pc = "start"
    /\ \E search \in Terms : \E replace \in Repls :
          Called("replace_next", <<search, replace>>,
                 replace_next(Self, search, replace), "replaced")

ReplaceAll ==
    /\ pc = "start"
    /\ \E search \in Terms : \E replace \in Repls :
          Called("replace_all", <<search, replace>>,
                 replace_all(Self, search, replace), "replaced_all")

\* the same call once more
ReplaceAllAgain ==
    /\ pc = "replaced_all"
    /\ Called("replace_all", <<call[2], call[3]>>,
              replace_all(Self, call[2], call[3]), "replaced_twice")

NextReplace ==
    \/ ReplaceNext
    \/ ReplaceAll
    \/ ReplaceAllAgain

SpecReplace == InitReplace /\ [][NextReplace]_vars

\* C12: when find_next(search) returns (y, x), replace_next changes only line
\* y, to old[:x] + replacement + old[x + len(search):], keeps the number of
\* lines and every other line, puts the cursor at (y, x + len(replacement)),
\* sets modified and returns True.
C12_ReplaceNext ==
    pc = "replaced" =>
        LET search  == call[2]
            replace == call[3]
            pos     == find_next(orig, search).ret
        IN  pos # None =>
              LET y   == pos[1]
                  x   == pos[2]
                  old == orig.lines[y + 1]
              IN  /\ Len(lines) = Len(orig.lines)
                  /\ \A k \in 1..Len(lines) :
                        k # y + 1 => lines[k] = orig.lines[k]
                  /\ lines[y + 1] = SubSeq(old, 1, x) \o replace
                                    \o SubSeq(old, x + Len(search) + 1, Len(old))
                  /\ cursor_y = y
                  /\ cursor_x = x + Len(replace)
                  /\ modified
                  /\ ret = TRUE

\* C12 witness: "ab" on the second row, found after the cursor row, was
\* replaced by "c", which shortens the row.
C12_Witness ==
    /\ pc = "replaced" /\ ret = TRUE
    /\ orig.lines = << <<"a">>, <<"a", "b">> >>
    /\ orig.cursor_y = 0 /\ orig.cursor_x = 1
    /\ call[2] = <<"a", "b">> /\ call[3] = <<"c">>
    /\ lines = << <<"a">>, <<"c">> >>
    /\ cursor_y = 1 /\ cursor_x = 1

\* the sum over the rows of the occurrences of search, counted left to right
\* without overlap
RECURSIVE TotalCount(_, _)
TotalCount(rows, search) ==
    IF rows = <<>> THEN 0
    ELSE count(Head(rows), search) + TotalCount(Tail(rows), search)

\* the state a call started from is the state it ended in
Untouched ==
    /\ lines = orig.lines
    /\ cursor_x = orig.cursor_x
    /\ cursor_y = orig.cursor_y
    /\ modified = orig.modified

\* C13: when the search string is empty or occurs nowhere in the buffer,
\* replace_next returns False and replace_all returns 0, and lines, the
\* cursor and the modified flag are unchanged.
C13_MissIsValue ==
    LET miss == call[2] = <<>> \/ Occurrences(orig.lines, call[2]) = {}
    IN  /\ (pc = "replaced" /\ miss) => (ret = FALSE /\ Untouched)
        /\ (pc = "replaced_all" /\ miss) => (ret = 0 /\ Untouched)

\* C14: replace_all(search, replacement), for a non-empty search, replaces in
\* each line every non-overlapping occurrence of search, left to right;
\* returns the sum over the lines of the occurrences in the line before the
\* substitution, also when replacement equals search; sets modified only if
\* that count is > 0; never changes the number of lines.
C14_ReplaceAll ==
    (pc = "replaced_all" /\ call[2] # <<>>) =>
        /\ Len(lines) = Len(orig.lines)
        /\ \A k \in 1..Len(lines) :
              lines[k] = replace_nonempty(orig.lines[k], call[2], call[3])
        /\ ret = TotalCount(orig.lines, call[2])
        /\ modified = (orig.modified \/ ret > 0)

\* C15 as stated: for non-empty search and replacement, replacement holding
\* no occurrence of search, a second replace_all(search, replacement) right
\* after the first returns 0 and leaves the buffer as the first left it.
C15_IdempotentNoOccurrence ==
    [][(pc' = "replaced_twice" /\ call[2] # <<>> /\ call[3] # <<>>
            /\ find(call[3], call[2], 0) = -1)
        => (ret' = 0 /\ lines' = lines)]_vars

\* search and replacement have no character in common
NoSharedChar(search, replace) ==
    \A i \in 1..Len(search) : \A j \in 1..Len(replace) : search[i] # replace[j]

\* C15 amended: for non-empty search and replacement that share no
\* character, a second replace_all(search, replacement) right after the
\* first returns 0 and leaves the buffer as the first left it.
C15_IdempotentNoSharedChar ==
    [][(pc' = "replaced_twice" /\ call[2] # <<>> /\ call[3] # <<>>
            /\ NoSharedChar(call[2], call[3]))
        => (ret' = 0 /\ lines' = lines)]_vars

\* C15 witness: "a" was replaced by "c" three times in "aaa", and the second
\* call found nothing left.
C15_Witness ==
    /\ pc = "replaced_twice"
    /\ call[2] = <<"a">> /\ call[3] = <<"c">>
    /\ orig.lines = << <<"a", "a", "a">> >>
    /\ trail = <<3, 0>>
    /\ lines = << <<"c", "c", "c">> >>

-----------------------------------------------------------------------------
(* SpecIndent: indent_line called on any row of any buffer of letters and  *)
(* spaces, with any amount, and then once more on the same row:            *)
(*   start -indent_line(y, n)-> indented -indent_line(y, m)->              *)
(*                                                     indented_twice      *)

MaxIndent == 2      \* the largest amount given to indent_line, either way

IndentAmounts == (-MaxIndent)..MaxIndent

\* the buffers of 1 .. MaxLines rows of letters and spaces
IndentBuffers ==
    {b \in UNION {[1..k -> Strs({"a", SP}, MaxChars)] : k \in 1..MaxLines} :
        TotalLen(b) <= MaxChars}

InitIndent ==
    \E rows \in IndentBuffers : \E pos \in Positions(rows) : \E ro \in BOOLEAN :
        StartFrom(rows, pos, ro)

IndentLine ==
    /\ pc = "start"
    /\ \E y \in 0..(Len(lines) - 1) : \E amount \in IndentAmounts :
          Called("indent_line", <<y, amount>>, indent_line(Self, y, amount),
                 "indented")

\* the same row once more, with any amount
IndentLineAgain ==
    /\ pc = "indented"
    /\ \E amount \in IndentAmounts :
          Called("indent_line", <<call[2], amount>>,
                 indent_line(Self, call[2], amount), "indented_twice")

NextIndent ==
    \/ IndentLine
    \/ IndentLineAgain

SpecIndent == InitIndent /\ [][NextIndent]_vars

\* the number of spaces line starts with
LeadingSpaces(line) ==
    CHOOSE n \in 0..Len(line) :
        /\ \A i \in 1..n : line[i] = SP
        /\ n < Len(line) => line[n + 1] # SP

\* C16: indent_line(y, amount), when not read-only: for amount > 0 line y
\* becomes amount * tab_size spaces followed by the old line; for amount < 0
\* exactly min(-amount * tab_size, leading spaces) characters are removed
\* from the front of line y, all of them spaces; no other line changes; and
\* indent_line(y, n) followed by indent_line(y, -n) restores line y, n > 0.
C16_IndentLine ==
    /\ [][(call'[1] = "indent_line" /\ ~read_only) =>
            LET y      == call'[2]
                amount == call'[3]
                old    == lines[y + 1]
                new    == lines'[y + 1]
                k      == Min((-amount) * tab_size, LeadingSpaces(old))
            IN  /\ Len(lines') = Len(lines)
                /\ \A j \in 1..Len(lines) : j # y + 1 => lines'[j] = lines[j]
                /\ amount > 0 =>
                      /\ Len(new) = amount * tab_size + Len(old)
                      /\ \A i \in 1..(amount * tab_size) : new[i] = SP
                      /\ SubSeq(new, amount * tab_size + 1, Len(new)) = old
                /\ amount < 0 =>
                      /\ new = SubSeq(old, k + 1, Len(old))
                      /\ \A i \in 1..k : old[i] = SP]_vars
    /\ [][(pc' = "indented_twice" /\ ~read_only
               /\ call[3] > 0 /\ call'[3] = -call[3])
           => lines' = orig.lines]_vars

\* C16 witness: four spaces were asked for and the only leading space of
\* " a " was removed, the space after the letter staying.
C16_Witness ==
    /\ pc = "indented" /\ ~read_only
    /\ call = <<"indent_line", 0, -1>>
    /\ orig.lines = << <<SP, "a", SP>> >>
    /\ lines = << <<"a", SP>> >>
    /\ modified

-----------------------------------------------------------------------------
(* SpecMove: one cursor key handled on any buffer at any in-bounds cursor, *)
(* in a terminal of any height; and KEY_LEFT right after KEY_RIGHT:        *)
(*   start -key-> moved                                                    *)
(*   start -KEY_RIGHT-> moved -KEY_LEFT-> moved_back                       *)

MaxHeight == 4      \* rows of the tallest terminal

\* the heights stdscr.getmaxyx() reports, a terminal of one row included
Heights == 1..MaxHeight

InitMove ==
    \E rows \in Buffers : \E pos \in Positions(rows) : StartFrom(rows, pos, FALSE)

MoveUp ==
    /\ pc = "start"
    /\ Called("KEY_UP", <<>>, Result(key_up(Self), None), "moved")

MoveDown ==
    /\ pc = "start"
    /\ Called("KEY_DOWN", <<>>, Result(key_down(Self), None), "moved")

MovePageUp ==
    /\ pc = "start"
    /\ \E h \in Heights :
          Called("KEY_PPAGE", <<h>>, Result(key_ppage(Self, h), None), "moved")

MovePageDown ==
    /\ pc = "start"
    /\ \E h \in Heights :
          Called("KEY_NPAGE", <<h>>, Result(key_npage(Self, h), None), "moved")

MoveLeft ==
    /\ pc = "start"
    /\ Called("KEY_LEFT", <<>>, Result(key_left(Self), None), "moved")

MoveRight ==
    /\ pc = "start"
    /\ Called("KEY_RIGHT", <<>>, Result(key_right(Self), None), "moved")

\* KEY_LEFT right after KEY_RIGHT
MoveBack ==
    /\ pc = "moved"
    /\ call = <<"KEY_RIGHT">>
    /\ Called("KEY_LEFT", <<>>, Result(key_left(Self), None), "moved_back")

NextMove ==
    \/ MoveUp
    \/ MoveDown
    \/ MovePageUp
    \/ MovePageDown
    \/ MoveLeft
    \/ MoveRight
    \/ MoveBack

SpecMove == InitMove /\ [][NextMove]_vars

\* the row a vertical key asks for, from row r: one row, or a page of
\* screen_height - 2 rows
RequestedRow(r) ==
    CASE call[1] = "KEY_UP"    -> r - 1
      [] call[1] = "KEY_DOWN"  -> r + 1
      [] call[1] = "KEY_PPAGE" -> r - (call[2] - 2)
      [] call[1] = "KEY_NPAGE" -> r + (call[2] - 2)

\* C17: after KEY_UP, KEY_DOWN, Page Up or Page Down from any in-bounds
\* cursor (r, c), the new row is the requested row clamped to
\* [0, lineCount - 1] and the new column is min(c, length of the destination
\* line); the buffer and the modified flag are unchanged.
C17_VerticalClamp ==
    (pc = "moved" /\ call[1] \in {"KEY_UP", "KEY_DOWN", "KEY_PPAGE", "KEY_NPAGE"}) =>
        /\ ~exc
        /\ cursor_y = Max(0, Min(Len(orig.lines) - 1, RequestedRow(orig.cursor_y)))
        /\ cursor_x = Min(orig.cursor_x, Len(orig.lines[cursor_y + 1]))
        /\ lines = orig.lines
        /\ modified = orig.modified

\* the same in a terminal of two rows or more, where a page is 0 rows or more
VerticalClampTwoRows ==
    (pc = "moved" /\ call[1] \in {"KEY_UP", "KEY_DOWN", "KEY_PPAGE", "KEY_NPAGE"}
        /\ (call[1] \in {"KEY_PPAGE", "KEY_NPAGE"} => call[2] >= 2)) =>
        /\ ~exc
        /\ cursor_y = Max(0, Min(Len(orig.lines) - 1, RequestedRow(orig.cursor_y)))
        /\ cursor_x = Min(orig.cursor_x, Len(orig.lines[cursor_y + 1]))
        /\ lines = orig.lines
        /\ modified = orig.modified

\* C18: KEY_LEFT at column 0 moves to the end of the previous line if the row
\* is > 0 and does nothing at (0, 0); KEY_RIGHT at the end of a line moves to
\* column 0 of the next line if there is one and does nothing at the end of
\* the last line; otherwise the column changes by exactly one.  KEY_RIGHT
\* then KEY_LEFT returns to the position it started from, from every position
\* but the end of the buffer.
C18_HorizontalWrap ==
    LET r == orig.cursor_y
        c == orig.cursor_x
        n == Len(orig.lines)
        at_end == r = n - 1 /\ c = Len(orig.lines[n])
    IN  /\ (pc = "moved" /\ call[1] = "KEY_LEFT") =>
              <<cursor_y, cursor_x>> =
                  (IF c > 0 THEN <<r, c - 1>>
                   ELSE IF r > 0 THEN <<r - 1, Len(orig.lines[r])>>
                   ELSE <<0, 0>>)
        /\ (pc = "moved" /\ call[1] = "KEY_RIGHT") =>
              <<cursor_y, cursor_x>> =
                  (IF c < Len(orig.lines[r + 1]) THEN <<r, c + 1>>
                   ELSE IF r < n - 1 THEN <<r + 1, 0>>
                   ELSE <<r, c>>)
        /\ (pc = "moved_back" /\ ~at_end) =>
              <<cursor_y, cursor_x>> = <<r, c>>
        /\ (pc \in {"moved", "moved_back"} /\ call[1] \in {"KEY_LEFT", "KEY_RIGHT"})
              => (lines = orig.lines /\ ~exc)

\* C18 witness: from the end of the first line KEY_RIGHT went to the start of
\* the second, and KEY_LEFT came back to the end of the first.
C18_Witness ==
    /\ pc = "moved_back"
    /\ orig.lines = << <<"a", "b">>, <<"a">> >>
    /\ orig.cursor_y = 0 /\ orig.cursor_x = 2
    /\ cursor_y = 0 /\ cursor_x = 2

-----------------------------------------------------------------------------
(* Spec: an editing session.  The editor is constructed on a file, main    *)
(* sets read_only, and then keys are handled and the buffer operations are *)
(* called, in any order, MaxSteps times at most.                           *)

\* [line.rstrip('\n') for line in f.readlines()]: the text is cut after each
\* newline, so a text that ends with a newline has no empty last line
file_lines(content) ==
    IF content = <<>> THEN <<>>
    ELSE LET parts == split(content)
         IN  IF parts[Len(parts)] = <<>> THEN SubSeq(parts, 1, Len(parts) - 1)
             ELSE parts

\* TextEditor.__init__: exists is os.path.exists(filename), readable is
\* whether open and readlines succeed; self.read_only is False throughout
TextEditor_init(exists, content, readable) ==
    [lines |-> IF exists /\ readable /\ file_lines(content) # <<>>
               THEN file_lines(content) ELSE << <<>> >>,
     cursor_x |-> 0, cursor_y |-> 0,
     modified |-> ~exists,
     read_only |-> FALSE,
     clipboard |-> <<>>, search_term |-> <<>>, exc |-> FALSE]

\* the files the sessions open
Files ==
    { <<>>,
      <<"a">>,
      <<SP, SP, SP, SP, "a">>,
      <<"a", NL, "a", "a">>,
      <<"(", NL>> }

\* the heights of the terminal (self.screen_height)
ScreenHeights == {3, 4}
\* the characters typed, the strings typed into the dialogs and given to the
\* buffer operations
TypedChars   == {"b"}
SearchTerms  == {<<"a">>, <<SP, SP>>}
Replacements == {<<>>, <<"b", "b">>}
Pasted       == {<<"b", NL, "b">>}
Amounts      == {-1, 1, 2}

Init ==
    /\ \E exists \in BOOLEAN, content \in Files, readable \in BOOLEAN,
          ro \in BOOLEAN :
          LET self == [TextEditor_init(exists, content, readable)
                          EXCEPT !.read_only = ro]
          IN  /\ lines = self.lines
              /\ cursor_x = self.cursor_x
              /\ cursor_y = self.cursor_y
              /\ modified = self.modified
              /\ read_only = self.read_only
              /\ clipboard = self.clipboard
              /\ search_term = self.search_term
              /\ exc = self.exc
              /\ file = (IF exists THEN content ELSE None)
              /\ saved_lines = self.lines
              /\ scan = None
              /\ macro_recording = FALSE
              /\ macro_commands = <<>>
              /\ loops = <<>>
              /\ orig = self
    /\ call = <<"init">>
    /\ ret = None
    /\ trail = <<>>
    /\ pc = "session"
    /\ steps = 0

\* one operation of the session: a key handled by handle_input, or a method
\* called; the session records its name and what it returned
Step(name, args, res) ==
    /\ pc = "session"
    /\ ~exc
    /\ steps < MaxSteps
    /\ Commit(res.self)
    /\ call' = <<name>>
    /\ ret' = res.ret
    /\ steps' = steps + 1
    /\ UNCHANGED <<orig, trail, pc, file, saved_lines, scan, macro_recording,
                   macro_commands, loops>>

Key(name, self) == Step(name, <<>>, Result(self, None))

KeyUp        == Key("KEY_UP", key_up(Self))
KeyDown      == Key("KEY_DOWN", key_down(Self))
KeyLeft      == Key("KEY_LEFT", key_left(Self))
KeyRight     == Key("KEY_RIGHT", key_right(Self))
KeyHome      == \E k \in {"KEY_HOME", "Ctrl+A"} : Key(k, key_home(Self))
KeyEnd       == \E k \in {"KEY_END", "Ctrl+E"} : Key(k, key_end(Self))
KeyPageUp    == \E h \in ScreenHeights : Key("KEY_PPAGE", key_ppage(Self, h))
KeyPageDown  == \E h \in ScreenHeights : Key("KEY_NPAGE", key_npage(Self, h))
KeyEnter     == Key("Enter", key_enter(Self))
KeyBackspace == Key("KEY_BACKSPACE", key_backspace(Self))
KeyDelete    == Key("KEY_DC", key_delete(Self))
KeyTab       == Key("Tab", key_tab(Self))
KeyCutLine   == Key("Ctrl+X", key_cut_line(Self))
KeyCopyLine  == Key("Ctrl+C", key_copy_line(Self))
KeyPaste     == \E k \in {"Ctrl+V", "Ctrl+Y"} : Key(k, key_paste(Self))
KeyCutToEol  == Key("Ctrl+K", key_cut_to_eol(Self))
KeyDuplicate == Key("Ctrl+D", key_duplicate_line(Self))
KeyIndentRight == Key("Ctrl+]", key_indent(Self, 1))
KeyIndentLeft  == Key("Ctrl+/", key_indent(Self, -1))
KeyChar      == \E c \in TypedChars : Key(c, key_char(Self, c))
KeyFind      == \E term \in SearchTerms \cup {<<>>} :
                    Step("Ctrl+F", <<term>>, show_find_dialog(Self, term))
KeyReplace   == \E replace \in Replacements :
                    Step("Ctrl+R", <<replace>>,
                         show_replace_dialog(Self, replace))
KeyGoto      == \E n \in 0..(Len(lines) + 1) :
                    Key("Ctrl+L", show_goto_dialog(Self, n))

\* a key whose handler may write the file or end main's loop: res holds the
\* new self, what handle_input returns, the file afterwards and whether
\* save_file succeeded
StepIO(name, res) ==
    /\ pc = "session"
    /\ ~exc
    /\ steps < MaxSteps
    /\ Commit(res.self)
    /\ file' = res.file
    /\ saved_lines' = (IF res.saved THEN lines ELSE saved_lines)
    /\ call' = name
    /\ ret' = res.ret
    /\ pc' = (IF res.ret THEN "session" ELSE "quit")
    /\ steps' = steps + 1
    /\ UNCHANGED <<orig, trail, scan, macro_recording, macro_commands, loops>>

\* the outcomes of a write: n characters reach the file when the write raises
WriteOutcomes(rows) ==
    {<<io, n>> \in IOOutcomes \X (0..Len(join(rows))) : io = "write_fails" \/ n = 0}

KeySave ==
    \E w \in WriteOutcomes(lines) :
        LET res == save_file(Self, file, w[1], w[2])
        IN  StepIO(<<"Ctrl+S", w[1]>>,
                   [self |-> res.self, ret |-> TRUE, file |-> res.file,
                    saved |-> res.ret])

KeyQuit ==
    \/ /\ ~modified
       /\ StepIO(<<"Ctrl+Q">>, key_quit(Self, file, "other", "ok", 0))
    \/ /\ modified
       /\ \E second \in SecondKeys : \E w \in WriteOutcomes(lines) :
             /\ (second = "Ctrl+S" \/ w = <<"ok", 0>>)
             /\ StepIO(IF second = "Ctrl+S" THEN <<"Ctrl+Q", second, w[1]>>
                       ELSE <<"Ctrl+Q", second>>,
                       key_quit(Self, file, second, w[1], w[2]))

CallInsertText ==
    \E text \in Pasted : Step("insert_text", <<text>>, insert_text(Self, text))
CallDeleteSelection ==
    \E s \in Selections(lines) :
        Step("delete_selection", <<s[1], s[2]>>, delete_selection(Self, s[1], s[2]))
CallReplaceNext ==
    \E search \in SearchTerms, replace \in Replacements :
        Step("replace_next", <<search, replace>>, replace_next(Self, search, replace))
CallReplaceAll ==
    \E search \in SearchTerms, replace \in Replacements :
        Step("replace_all", <<search, replace>>, replace_all(Self, search, replace))
CallIndentLine ==
    \E y \in 0..(Len(lines) - 1), amount \in Amounts :
        Step("indent_line", <<y, amount>>, indent_line(Self, y, amount))

\* what main's loop runs: handle_input, key after key
NextKeys ==
    \/ KeyUp \/ KeyDown \/ KeyLeft \/ KeyRight \/ KeyHome \/ KeyEnd
    \/ KeyPageUp \/ KeyPageDown
    \/ KeyEnter \/ KeyBackspace \/ KeyDelete \/ KeyTab
    \/ KeyCutLine \/ KeyCopyLine \/ KeyPaste \/ KeyCutToEol \/ KeyDuplicate
    \/ KeyIndentRight \/ KeyIndentLeft \/ KeyChar
    \/ KeyFind \/ KeyReplace \/ KeyGoto
    \/ KeySave \/ KeyQuit

\* the keys, and the buffer operations called directly
Next ==
    \/ NextKeys
    \/ CallInsertText \/ CallDeleteSelection
    \/ CallReplaceNext \/ CallReplaceAll \/ CallIndentLine

Spec == Init /\ [][Next]_vars

\* SpecKeys: the editor as main runs it, driven by keys alone
SpecKeys == Init /\ [][NextKeys]_vars

-----------------------------------------------------------------------------
(* Session claims.                                                         *)

\* C1: in every state reached from a freshly opened buffer by editor
\* operations, 0 <= cursor_y < len(lines) and
\* 0 <= cursor_x <= len(lines[cursor_y]).
C1_CursorInBounds ==
    /\ 0 <= cursor_y /\ cursor_y < Len(lines)
    /\ 0 <= cursor_x /\ cursor_x <= Len(lines[cursor_y + 1])

-----------------------------------------------------------------------------
(* SpecFile: the editor is constructed on a file, main sets read_only, a   *)
(* character may be typed, and the buffer is saved:                        *)
(*   opened -save_file-> saved                                             *)
(*   opened -key-> edited -save_file-> saved_edited                        *)

\* the texts of the files opened
FileTexts == Strs({"a", NL}, MaxText)

InitFile ==
    /\ \E exists \in BOOLEAN, content \in FileTexts, readable \in BOOLEAN,
          ro \in BOOLEAN :
          LET self == [TextEditor_init(exists, content, readable)
                          EXCEPT !.read_only = ro]
          IN  /\ (~exists) => (content = <<>> /\ readable)
              /\ lines = self.lines
              /\ cursor_x = self.cursor_x
              /\ cursor_y = self.cursor_y
              /\ modified = self.modified
              /\ read_only = self.read_only
              /\ clipboard = self.clipboard
              /\ search_term = self.search_term
              /\ exc = self.exc
              /\ file = (IF exists THEN content ELSE None)
              /\ saved_lines = self.lines
              /\ scan = None
              /\ macro_recording = FALSE
              /\ macro_commands = <<>>
              /\ loops = <<>>
              /\ orig = [file |-> IF exists THEN content ELSE None,
                         readable |-> readable,
                         lines |-> self.lines, modified |-> self.modified]
    /\ call = <<"TextEditor">>
    /\ ret = None
    /\ trail = <<>>
    /\ pc = "opened"
    /\ steps = 0

\* a character typed before saving
TypeChar ==
    /\ pc = "opened"
    /\ \E c \in {"a"} :
          Called(c, <<>>, Result(key_char(Self, c), None), "edited")

\* Ctrl+S
SaveFile ==
    /\ pc \in {"opened", "edited"}
    /\ \E io \in IOOutcomes : \E n \in 0..Len(join(lines)) :
          LET res == save_file(Self, file, io, n)
          IN  /\ (io = "write_fails" \/ n = 0)
              /\ Commit(res.self)
              /\ file' = res.file
              /\ saved_lines' = (IF res.ret THEN lines ELSE saved_lines)
              /\ call' = <<"save_file", io>>
              /\ ret' = res.ret
              /\ trail' = Append(trail, res.ret)
              /\ pc' = (IF pc = "opened" THEN "saved" ELSE "saved_edited")
              /\ UNCHANGED <<orig, steps, scan, macro_recording,
                             macro_commands, loops>>

NextFile ==
    \/ TypeChar
    \/ SaveFile

SpecFile == InitFile /\ [][NextFile]_vars

\* C19: opening a file of text C gives the buffer split(C), one empty line
\* for the empty C; saving writes the lines joined with newlines and nothing
\* after them; so opening a file and saving it with no edit writes back
\* exactly C, also when C ends with a newline.
C19_FileRoundTrip ==
    LET opened == orig.file # None /\ orig.readable
    IN  /\ (pc = "opened" /\ opened) => lines = split(orig.file)
        /\ (pc \in {"saved", "saved_edited"} /\ ret = TRUE) => file = join(lines)
        /\ (pc = "saved" /\ ret = TRUE /\ opened) => file = orig.file

\* C20: if the write fails or the editor is read-only, save_file returns
\* False and leaves the modified flag and the buffer as they were; modified
\* becomes false only by a write that succeeds; and if reading an existing
\* file fails, the buffer is the single empty line it was constructed with.
C20_IOFailure ==
    /\ [][call'[1] = "save_file" =>
            /\ (read_only \/ call'[2] # "ok") =>
                  (ret' = FALSE /\ modified' = modified /\ lines' = lines)
            /\ (~read_only /\ call'[2] = "ok") =>
                  (ret' = TRUE /\ ~modified' /\ lines' = lines)]_vars
    /\ [][(modified /\ ~modified') =>
            (call'[1] = "save_file" /\ ret' = TRUE /\ file' = join(lines))]_vars
    /\ []((pc = "opened" /\ orig.file # None /\ ~orig.readable) =>
            lines = << <<>> >>)

\* C20 witness: after a character was typed the write failed, having
\* truncated the file, and the editor still holds the modified buffer.
C20_Witness ==
    /\ pc = "saved_edited" /\ ~read_only
    /\ call = <<"save_file", "write_fails">>
    /\ ret = FALSE
    /\ modified
    /\ orig.file = <<"a", NL, "a">>
    /\ lines = << <<"a", "a">>, <<"a">> >>
    /\ file = <<>>

-----------------------------------------------------------------------------
(* Claims on the keys of a session: read-only mode, the modified flag and  *)
(* quitting.                                                               *)

\* C21: when read_only is true no key handled by handle_input changes the
\* content of lines or sets the modified flag, and save_file never writes
\* the file.
C21_ReadOnlyProtects ==
    [][read_only =>
          /\ lines' = lines
          /\ modified' => modified
          /\ file' = file]_vars

\* C29: every operation that changes the content of lines leaves modified
\* true; hence, in every reachable state, a buffer that differs from what it
\* was at the last successful save or load is flagged modified.
C29_ModifiedTracksChanges ==
    /\ [][lines' # lines => modified']_vars
    /\ [](lines # saved_lines => modified)

\* C29 witness: the empty buffer of a new file was saved, creating the file,
\* and a character typed after that has flagged the buffer modified again.
C29_Witness ==
    /\ steps = 2 /\ call = <<"b">>
    /\ orig.modified
    /\ file = <<>>
    /\ saved_lines = << <<>> >>
    /\ lines = << <<"b">> >>
    /\ modified

\* C30: handle_input returns False, ending main's loop, only if the key is
\* Ctrl+Q and either modified is false, or the next key is Ctrl+Q again, or
\* the next key is Ctrl+S and save_file succeeds; with unsaved changes any
\* other next key, or a save that fails, leaves the editor running with the
\* buffer unchanged and modified still true.
C30_NoSilentLoss ==
    /\ [][(pc = "session" /\ pc' = "quit") =>
            /\ call'[1] = "Ctrl+Q"
            /\ \/ ~modified
               \/ call'[2] = "Ctrl+Q"
               \/ /\ call'[2] = "Ctrl+S"
                  /\ ~read_only /\ call'[3] = "ok"
                  /\ file' = join(lines) /\ ~modified']_vars
    /\ [][(pc = "session" /\ call'[1] = "Ctrl+Q" /\ modified
              /\ call'[2] # "Ctrl+Q"
              /\ (call'[2] = "Ctrl+S" => (read_only \/ call'[3] # "ok")))
           => (pc' = "session" /\ lines' = lines /\ modified')]_vars

\* C30 witness: with unsaved changes, Ctrl+Q then Ctrl+S whose write failed:
\* the editor is still running and the buffer still modified.
C30_Witness ==
    /\ pc = "session"
    /\ call = <<"Ctrl+Q", "Ctrl+S", "write_fails">>
    /\ ~read_only
    /\ modified
    /\ lines = << <<"b", "a">> >>
    /\ file = <<>>

-----------------------------------------------------------------------------
(* SyntaxHighlighter: the rule tables, and TextEditor.highlight_line, the  *)
(* scanner that draws one line as coloured spans.                          *)

\* the backquote character, which a string of this module cannot hold
BQ == "backquote"

\* self.rules['python']
python_rules ==
    [keywords |->
        << <<"d", "e", "f">>, <<"c", "l", "a", "s", "s">>, <<"i", "f">>,
           <<"e", "l", "s", "e">>, <<"e", "l", "i", "f">>, <<"f", "o", "r">>,
           <<"w", "h", "i", "l", "e">>, <<"t", "r", "y">>,
           <<"e", "x", "c", "e", "p", "t">>,
           <<"f", "i", "n", "a", "l", "l", "y">>, <<"w", "i", "t", "h">>,
           <<"i", "m", "p", "o", "r", "t">>, <<"f", "r", "o", "m">>,
           <<"a", "s">>, <<"r", "e", "t", "u", "r", "n">>,
           <<"y", "i", "e", "l", "d">>, <<"b", "r", "e", "a", "k">>,
           <<"c", "o", "n", "t", "i", "n", "u", "e">>,
           <<"p", "a", "s", "s">>, <<"r", "a", "i", "s", "e">>,
           <<"l", "a", "m", "b", "d", "a">>, <<"a", "n", "d">>, <<"o", "r">>,
           <<"n", "o", "t">>, <<"i", "s">>, <<"i", "n">>,
           <<"T", "r", "u", "e">>, <<"F", "a", "l", "s", "e">>,
           <<"N", "o", "n", "e">> >>,
     string_delimiters |-> << <<"\"">>, <<"'">>, <<"\"", "\"", "\"">>, <<"'", "'", "'">> >>,
     comment_delimiters |-> << <<"#">> >>,
     number_regex |-> "\\b\\d+\\b"]

\* self.rules['cpp']
cpp_rules ==
    [keywords |->
        << <<"c", "l", "a", "s", "s">>, <<"s", "t", "r", "u", "c", "t">>,
           <<"i", "f">>, <<"e", "l", "s", "e">>, <<"f", "o", "r">>,
           <<"w", "h", "i", "l", "e">>, <<"t", "r", "y">>,
           <<"c", "a", "t", "c", "h">>, <<"t", "h", "r", "o", "w">>,
           <<"n", "a", "m", "e", "s", "p", "a", "c", "e">>,
           <<"u", "s", "i", "n", "g">>, <<"r", "e", "t", "u", "r", "n">>,
           <<"b", "r", "e", "a", "k">>,
           <<"c", "o", "n", "t", "i", "n", "u", "e">>,
           <<"s", "w", "i", "t", "c", "h">>, <<"c", "a", "s", "e">>,
           <<"d", "e", "f", "a", "u", "l", "t">>, <<"a", "u", "t", "o">>,
           <<"c", "o", "n", "s", "t">>, <<"s", "t", "a", "t", "i", "c">>,
           <<"v", "o", "l", "a", "t", "i", "l", "e">>,
           <<"p", "u", "b", "l", "i", "c">>,
           <<"p", "r", "i", "v", "a", "t", "e">>,
           <<"p", "r", "o", "t", "e", "c", "t", "e", "d">>,
           <<"t", "e", "m", "p", "l", "a", "t", "e">>,
           <<"t", "y", "p", "e", "n", "a", "m", "e">>,
           <<"b", "o", "o", "l">>, <<"i", "n", "t">>,
           <<"f", "l", "o", "a", "t">>, <<"d", "o", "u", "b", "l", "e">>,
           <<"c", "h", "a", "r">>, <<"v", "o", "i", "d">>,
           <<"t", "r", "u", "e">>, <<"f", "a", "l", "s", "e">>,
           <<"n", "u", "l", "l", "p", "t", "r">> >>,
     string_delimiters |-> << <<"\"">>, <<"'">> >>,
     comment_delimiters |-> << <<"/", "/">>, <<"/", "*">>, <<"*", "/">> >>,
     number_regex |-> "\\b\\d+\\b"]

\* self.rules['javascript']
javascript_rules ==
    [keywords |->
        << <<"f", "u", "n", "c", "t", "i", "o", "n">>,
           <<"c", "l", "a", "s", "s">>, <<"i", "f">>, <<"e", "l", "s", "e">>,
           <<"f", "o", "r">>, <<"w", "h", "i", "l", "e">>, <<"t", "r", "y">>,
           <<"c", "a", "t", "c", "h">>,
           <<"f", "i", "n", "a", "l", "l", "y">>,
           <<"t", "h", "r", "o", "w">>, <<"r", "e", "t", "u", "r", "n">>,
           <<"b", "r", "e", "a", "k">>,
           <<"c", "o", "n", "t", "i", "n", "u", "e">>,
           <<"s", "w", "i", "t", "c", "h">>, <<"c", "a", "s", "e">>,
           <<"d", "e", "f", "a", "u", "l", "t">>, <<"v", "a", "r">>,
           <<"l", "e", "t">>, <<"c", "o", "n", "s", "t">>,
           <<"t", "r", "u", "e">>, <<"f", "a", "l", "s", "e">>,
           <<"n", "u", "l", "l">>,
           <<"u", "n", "d", "e", "f", "i", "n", "e", "d">>,
           <<"t", "h", "i", "s">>, <<"n", "e", "w">>,
           <<"d", "e", "l", "e", "t", "e">>,
           <<"t", "y", "p", "e", "o", "f">>,
           <<"i", "n", "s", "t", "a", "n", "c", "e", "o", "f">>,
           <<"a", "w", "a", "i", "t">>, <<"a", "s", "y", "n", "c">>,
           <<"y", "i", "e", "l", "d">> >>,
     string_delimiters |-> << <<"\"">>, <<"'">>, <<BQ>> >>,
     comment_delimiters |-> << <<"/", "/">>, <<"/", "*">>, <<"*", "/">> >>,
     number_regex |-> "\\b\\d+\\b"]

\* a rule set of ./.geteed.cfg, which load_custom_rules adds to the tables:
\* no keywords, the string delimiter ", the comment delimiter #, numbers \d+
custom_rules ==
    [keywords |-> << >>,
     string_delimiters |-> << <<"\"">> >>,
     comment_delimiters |-> << <<"#">> >>,
     number_regex |-> "\\d+"]

\* the languages of the built-in rule sets
BuiltIn == {"python", "cpp", "javascript"}

\* the languages self.rules has a rule set for
has_rules(language) == language \in BuiltIn \cup {"custom"}

\* SyntaxHighlighter.get_highlight_info: the rule set of a language, or None
get_highlight_info(language) ==
    CASE language = "python"     -> python_rules
      [] language = "cpp"        -> cpp_rules
      [] language = "javascript" -> javascript_rules
      [] language = "custom"     -> custom_rules
      [] OTHER                   -> None

\* str.isalnum and the characters \d and \w of re, for ASCII
Digits == {"0", "1", "2", "3", "4", "5", "6", "7", "8", "9"}
Letters ==
    { "a", "b", "c", "d", "e", "f", "g", "h", "i", "j", "k", "l", "m", "n",
      "o", "p", "q", "r", "s", "t", "u", "v", "w", "x", "y", "z", "A", "B",
      "C", "D", "E", "F", "G", "H", "I", "J", "K", "L", "M", "N", "O", "P",
      "Q", "R", "S", "T", "U", "V", "W", "X", "Y", "Z" }
isalnum(c) == c \in Letters \cup Digits
isword(c)  == isalnum(c) \/ c = "_"

\* the first delimiter of the list, in its order, that line starts with at
\* column i (for delim in ...: if line.startswith(delim, i)), 0 if none
FirstMatch(delims, line, i) ==
    LET hits == {k \in 1..Len(delims) : startswith(line, delims[k], i)}
    IN  IF hits = {} THEN 0 ELSE Least(hits)

\* the keyword test without the test of the character before
keyword_at_no_left_boundary(line, keyword, i) ==
    /\ startswith(line, keyword, i)
    /\ (i + Len(keyword) >= Len(line) \/ ~isalnum(line[i + Len(keyword) + 1]))

\* the test of one keyword at column i
keyword_at(line, keyword, i) ==
    /\ startswith(line, keyword, i)
    /\ (i = 0 \/ ~isalnum(line[i]))
    /\ (i + Len(keyword) >= Len(line) \/ ~isalnum(line[i + Len(keyword) + 1]))

\* the first keyword of the list that passes the test at column i, 0 if none
FirstKeyword(keywords, line, i) ==
    LET hits == {k \in 1..Len(keywords) : keyword_at(line, keywords[k], i)}
    IN  IF hits = {} THEN 0 ELSE Least(hits)

\* the digits line holds from column i on
RECURSIVE digit_run(_, _)
digit_run(line, i) ==
    IF i < Len(line) /\ line[i + 1] \in Digits THEN 1 + digit_run(line, i + 1)
    ELSE 0

\* len(re.match(number_regex, line[i:]).group()), 0 when there is no match:
\* \d+ takes the whole run of digits; the closing \b asks that no word
\* character follows, and no shorter run satisfies it; the opening \b holds
\* at the start of the slice line[i:] whatever precedes column i
number_match(number_regex, line, i) ==
    LET k == digit_run(line, i)
    IN  IF number_regex = "" \/ k = 0 THEN 0
        ELSE IF number_regex = "\\d+" THEN k
        ELSE IF i + k < Len(line) /\ isword(line[i + k + 1]) THEN 0
        ELSE k

\* stdscr.addstr / addch of the columns [from, to) of the line in the colour
\* of tag
Span(tag, from, to) == <<tag, from, to>>

\* the locals of highlight_line before the loop
hl_locals(language, line, max_len) ==
    [language |-> language, line |-> line, max_len |-> max_len,
     i |-> 0,
     in_string |-> FALSE, string_start |-> 0, string_delim |-> None,
     in_comment |-> FALSE, comment_start |-> 0,
     out |-> << >>,     \* the spans drawn so far
     error |-> FALSE,   \* an IndexError was raised
     done |-> FALSE]    \* highlight_line has returned

\* highlight_line up to its loop: nothing is drawn for an empty line, and a
\* line of a language without rules is drawn as it is
hl_begin(language, line, max_len) ==
    LET sc == hl_locals(language, line, max_len)
    IN  IF line = << >> THEN [sc EXCEPT !.done = TRUE]
        ELSE IF ~has_rules(language)
        THEN [sc EXCEPT !.done = TRUE,
                        !.out = <<Span("plain", 0, Max(0, Min(Len(line), max_len)))>>]
        ELSE sc

\* the loop runs on: while i < len(line) and i < max_len
hl_looping(sc) == ~sc.done /\ sc.i < Len(sc.line) /\ sc.i < sc.max_len

\* one iteration of the loop
hl_iteration(sc) ==
    LET rules == get_highlight_info(sc.language)
        line  == sc.line
        i0    == sc.i
        sd    == FirstMatch(rules.string_delimiters, line, i0)
        closes == /\ ~sc.in_comment /\ sc.in_string
                  /\ startswith(line, sc.string_delim, i0)
    IN  IF closes
        THEN \* the string ends: it is drawn, and the loop continues
             [sc EXCEPT !.in_string = FALSE,
                        !.out = Append(@, Span("string", sc.string_start,
                                               i0 + Len(sc.string_delim))),
                        !.i = i0 + Len(sc.string_delim)]
        ELSE
        LET \* a string starts; the iteration goes on
            s1 == IF ~sc.in_comment /\ ~sc.in_string /\ sd # 0
                  THEN [sc EXCEPT !.in_string = TRUE,
                                  !.string_delim = rules.string_delimiters[sd],
                                  !.string_start = i0,
                                  !.i = i0 + Len(rules.string_delimiters[sd])]
                  ELSE sc
            cd == FirstMatch(rules.comment_delimiters, line, s1.i)
            s2 == IF ~s1.in_string /\ ~s1.in_comment /\ cd # 0
                  THEN [s1 EXCEPT !.in_comment = TRUE,
                                  !.comment_start = s1.i,
                                  !.i = Len(line)]
                  ELSE s1
            kw == IF ~s2.in_string /\ ~s2.in_comment
                  THEN FirstKeyword(rules.keywords, line, s2.i) ELSE 0
            \* a keyword is drawn; the iteration goes on
            s3 == IF kw # 0
                  THEN [s2 EXCEPT
                           !.out = Append(@, Span("keyword", s2.i,
                                                  s2.i + Len(rules.keywords[kw]))),
                           !.i = s2.i + Len(rules.keywords[kw])]
                  ELSE s2
            n  == IF ~s3.in_string /\ ~s3.in_comment
                  THEN number_match(rules.number_regex, line, s3.i) ELSE 0
        IN  IF n > 0
            THEN \* a number is drawn, and the loop continues
                 [s3 EXCEPT !.out = Append(@, Span("number", s3.i, s3.i + n)),
                            !.i = s3.i + n]
            ELSE IF ~s3.in_string /\ ~s3.in_comment
            THEN \* stdscr.addch(y, display_x + i, line[i])
                 IF s3.i >= Len(line) THEN [s3 EXCEPT !.error = TRUE]
                 ELSE [s3 EXCEPT !.out = Append(@, Span("plain", s3.i, s3.i + 1)),
                                 !.i = s3.i + 1]
            ELSE [s3 EXCEPT !.i = s3.i + 1]

\* the end of highlight_line that draws an open string only
hl_end_strings_only(sc) ==
    IF sc.in_string
    THEN [sc EXCEPT !.done = TRUE,
                    !.out = Append(@, Span("string", sc.string_start,
                                           Max(sc.string_start,
                                               Min(Len(sc.line), sc.max_len))))]
    ELSE [sc EXCEPT !.done = TRUE]

\* after the loop: the string or the comment still open is drawn to the end
\* of the line, or of the screen
hl_end(sc) ==
    IF sc.in_string
    THEN [sc EXCEPT !.done = TRUE,
                    !.out = Append(@, Span("string", sc.string_start,
                                           Max(sc.string_start,
                                               Min(Len(sc.line), sc.max_len))))]
    ELSE IF sc.in_comment
    THEN [sc EXCEPT !.done = TRUE,
                    !.out = Append(@, Span("comment", sc.comment_start,
                                           Max(sc.comment_start,
                                               Min(Len(sc.line), sc.max_len))))]
    ELSE [sc EXCEPT !.done = TRUE]

-----------------------------------------------------------------------------
(* SpecTok: render draws a line of the buffer with highlight_line, in any  *)
(* language and on a screen of any width; one step per iteration of the    *)
(* loop:                                                                   *)
(*   start -highlight_line-> scanning -iteration-> ... -end-> scanned      *)
(*                                              or -IndexError-> crashed   *)

MaxLine == 4        \* characters of a line drawn

\* the characters of the lines: a keyword of every rule set ("if"), string
\* and comment delimiters, a digit, a space
TokAlpha == {"i", "f", "\"", "#", "/", "5", SP}

\* say("hi") # end
SayHiEnd ==
    <<"s", "a", "y", "(", "\"", "h", "i", "\"", ")", SP, "#", SP, "e", "n", "d">>

\* x = 5 # comment
XIs5Comment ==
    <<"x", SP, "=", SP, "5", SP, "#", SP, "c", "o", "m", "m", "e", "n", "t">>

\* x = True
XIsTrue == <<"x", SP, "=", SP, "T", "r", "u", "e">>

TokLines ==
    Strs(TokAlpha, MaxLine)
        \cup {SayHiEnd, XIs5Comment, XIsTrue, <<"p", "a", "s", "s">>}

\* self.current_language: a built-in rule set, one of ./.geteed.cfg, none
Languages == BuiltIn \cup {"custom", "text"}

\* max_len = self.screen_width - display_x - 1: a narrow and a wide screen
Widths == {2, 80}

InitTok ==
    \E line \in TokLines : StartFrom(<<line>>, <<0, 0>>, FALSE)

\* render calls highlight_line on the line
HighlightLine ==
    /\ pc = "start"
    /\ \E language \in Languages : \E max_len \in Widths :
          LET sc == hl_begin(language, lines[1], max_len)
          IN  /\ scan' = sc
              /\ pc' = (IF sc.done THEN "scanned" ELSE "scanning")
              /\ call' = <<"highlight_line", language, max_len>>
    /\ UNCHANGED <<lines, cursor_x, cursor_y, modified, read_only, clipboard,
                   search_term, file, saved_lines, macro_recording,
                   macro_commands, loops, exc, ret, orig, trail, steps>>

\* one iteration of the loop
ScanStep ==
    /\ pc = "scanning"
    /\ hl_looping(scan)
    /\ scan' = hl_iteration(scan)
    /\ exc' = scan'.error
    /\ pc' = (IF scan'.error THEN "crashed" ELSE "scanning")
    /\ UNCHANGED <<lines, cursor_x, cursor_y, modified, read_only, clipboard,
                   search_term, file, saved_lines, macro_recording,
                   macro_commands, loops, call, ret, orig, trail, steps>>

\* the loop is left and highlight_line returns
ScanEnd ==
    /\ pc = "scanning"
    /\ ~hl_looping(scan)
    /\ scan' = hl_end(scan)
    /\ pc' = "scanned"
    /\ UNCHANGED <<lines, cursor_x, cursor_y, modified, read_only, clipboard,
                   search_term, file, saved_lines, macro_recording,
                   macro_commands, loops, exc, call, ret, orig, trail, steps>>

NextTok ==
    \/ HighlightLine
    \/ ScanStep
    \/ ScanEnd

SpecTok == InitTok /\ [][NextTok]_vars

-----------------------------------------------------------------------------
(* Claims on the spans highlight_line draws.                               *)

\* highlight_line has returned from a line of a language with rules that
\* fits the screen
Scanned ==
    /\ pc = "scanned"
    /\ call[1] = "highlight_line"
    /\ has_rules(call[2])
    /\ call[3] >= Len(lines[1])

\* highlight_line has raised an IndexError on such a line
Crashed ==
    /\ pc = "crashed"
    /\ call[3] >= Len(lines[1])

\* the rule set the line is drawn with
Rules == get_highlight_info(call[2])

\* the spans drawn with a tag
Tagged(tag) == {k \in 1..Len(scan.out) : scan.out[k][1] = tag}

\* where a string opened at column s by delimiter d has to end: after the
\* first d at a column >= s + len(d), at the end of the line without one
StringEnd(line, d, s) ==
    LET closes == {c \in (s + Len(d))..(Len(line) - 1) : startswith(line, d, c)}
    IN  IF closes = {} THEN Len(line) ELSE Least(closes) + Len(d)

\* C22: a string opened at column s by the delimiter d is closed by the
\* first d that starts at a column >= s + len(d), the column right after
\* the opening delimiter included, and its span runs from s to the end of
\* that closing delimiter.
C22_StringClosesAtFirstDelimiter ==
    Scanned =>
        \A k \in Tagged("string") :
            LET s == scan.out[k][2]
                m == FirstMatch(Rules.string_delimiters, lines[1], s)
            IN  /\ m # 0
                /\ scan.out[k][3] =
                       StringEnd(lines[1], Rules.string_delimiters[m], s)

\* C22, its example: say("hi") # end has the string span "hi" and the
\* comment span # end
SayHiEndSpans ==
    Scanned /\ lines[1] = SayHiEnd /\ call[2] \in {"python", "custom"} =>
        /\ {scan.out[k] : k \in Tagged("string")} = {Span("string", 4, 8)}
        /\ {scan.out[k] : k \in Tagged("comment")} = {Span("comment", 10, 15)}

\* the spans with each run of adjacent plain characters merged into one
RECURSIVE Merge(_)
Merge(spans) ==
    IF Len(spans) < 2 THEN spans
    ELSE LET a == spans[1]
             b == spans[2]
         IN  IF a[1] = "plain" /\ b[1] = "plain" /\ a[3] = b[2]
             THEN Merge(<<Span("plain", a[2], b[3])>> \o SubSeq(spans, 3, Len(spans)))
             ELSE <<a>> \o Merge(Tail(spans))

\* the spans are not empty, follow one another from column 0 without a gap
\* or an overlap, and end at column n
Partition(spans, n) ==
    /\ \A k \in 1..Len(spans) : spans[k][2] < spans[k][3]
    /\ \A k \in 1..(Len(spans) - 1) : spans[k][3] = spans[k + 1][2]
    /\ IF spans = << >> THEN n = 0
       ELSE spans[1][2] = 0 /\ spans[Len(spans)][3] = n

C24_PlainOnlyIfNothingMatches ==
    Scanned \/ Crashed =>
        \A k \in Tagged("plain") :
            LET c == scan.out[k][2]
            IN  /\ FirstMatch(Rules.string_delimiters, lines[1], c) = 0
                /\ FirstMatch(Rules.comment_delimiters, lines[1], c) = 0
                /\ FirstKeyword(Rules.keywords, lines[1], c) = 0
                /\ number_match(Rules.number_regex, lines[1], c) = 0

\* C25: under every built-in rule set the scan of a line reads line[i] only
\* with 0 <= i < len(line), so highlight_line returns without an error, on
\* a line that ends with a keyword too.
C25_NeverReadsOutsideLine ==
    call[1] = "highlight_line" /\ call[2] \in BuiltIn =>
        /\ ~scan.error
        /\ ~exc
        /\ pc # "crashed"

\* column c lies inside a string span drawn
InStringSpan(c) ==
    \E k \in Tagged("string") : scan.out[k][2] <= c /\ c < scan.out[k][3]

\* the columns outside the string spans where a comment delimiter matches
CommentColumns ==
    {c \in 0..(Len(lines[1]) - 1) :
        /\ FirstMatch(Rules.comment_delimiters, lines[1], c) # 0
        /\ ~InStringSpan(c)}

\* a comment span is the last span and ends with the line, a string left
\* open is drawn as the last span, from its opening delimiter to the end of
\* the line, and no comment starts inside a string
RunToEndOfLine ==
    Scanned =>
        /\ \A k \in Tagged("comment") :
              /\ k = Len(scan.out)
              /\ scan.out[k][3] = Len(lines[1])
              /\ ~InStringSpan(scan.out[k][2])
        /\ ~(scan.in_string /\ scan.in_comment)
        /\ scan.in_string =>
              scan.out[Len(scan.out)] =
                  Span("string", scan.string_start, Len(lines[1]))

\* C26: a comment delimiter that matches at a column outside a string
\* starts one comment span that runs to the end of the line, and nothing
\* after it is drawn otherwise; a string opened and never closed is one
\* string span to the end of the line; a comment delimiter inside an open
\* string starts no comment.
C26_CommentsAndOpenStringsRunToEnd ==
    /\ RunToEndOfLine
    /\ Scanned /\ CommentColumns # {} =>
          Span("comment", Least(CommentColumns), Len(lines[1]))
              = scan.out[Len(scan.out)]

\* C27: an iteration draws a keyword span at column i only if the scanner
\* is in neither a string nor a comment, the text at i is a keyword of the
\* rule set, the character before i is absent or not alphanumeric and the
\* character after the keyword is absent or not alphanumeric; a keyword
\* inside a longer alphanumeric word is never drawn as a keyword.
C27_KeywordWordBoundaries ==
    [][pc = "scanning" =>
        \A k \in (Len(scan.out) + 1)..Len(scan'.out) :
            scan'.out[k][1] = "keyword" =>
                LET s == scan'.out[k][2]
                    e == scan'.out[k][3]
                IN  /\ s = scan.i
                    /\ ~scan.in_string
                    /\ ~scan.in_comment
                    /\ ~InStringSpan(s)
                    /\ \E j \in 1..Len(Rules.keywords) :
                          Rules.keywords[j] = SubSeq(lines[1], s + 1, e)
                    /\ (s = 0 \/ ~isalnum(lines[1][s]))
                    /\ (e >= Len(lines[1]) \/ ~isalnum(lines[1][e + 1]))
    ]_vars

\* "if 5" has been drawn with the python rules: the keyword if at the
\* start of the line, before a space
C27_Witness ==
    /\ pc = "scanned"
    /\ lines[1] = <<"i", "f", SP, "5">>
    /\ call = <<"highlight_line", "python", 80>>
    /\ scan.out = <<Span("keyword", 0, 2), Span("plain", 2, 3),
                    Span("number", 3, 4)>>

\* "if5 " has been drawn with the python rules: a digit follows if, and no
\* keyword is drawn
KeywordInsideWord ==
    /\ pc = "scanned"
    /\ lines[1] = <<"i", "f", "5", SP>>
    /\ call = <<"highlight_line", "python", 80>>
    /\ Tagged("keyword") = {}

\* p is a proper prefix of d
ProperPrefix(p, d) == Len(p) < Len(d) /\ SubSeq(d, 1, Len(p)) = p

\* no delimiter of the list comes after a proper prefix of it
LongestFirst(delims) ==
    \A j, k \in 1..Len(delims) : j < k => ~ProperPrefix(delims[j], delims[k])

\* C28: in the python, cpp and javascript rule sets no string delimiter
\* comes in the list after a delimiter that is a proper prefix of it, so
\* the delimiter that opens a string is the longest one of the list that
\* the line holds at that column.
C28_DelimiterOrdering ==
    call[1] = "highlight_line" /\ call[2] \in BuiltIn =>
        /\ LongestFirst(Rules.string_delimiters)
        /\ pc = "scanning" /\ scan.in_string =>
              \A k \in 1..Len(Rules.string_delimiters) :
                  startswith(lines[1], Rules.string_delimiters[k],
                             scan.string_start)
                      => Len(Rules.string_delimiters[k]) <= Len(scan.string_delim)

-----------------------------------------------------------------------------
(* SpecMacro: sessions of keys with macros. Ctrl+M starts and ends a       *)
(* recording, ESC cancels it, Ctrl+\ runs the macro; handle_input reads    *)
(* one key of the terminal with getch, and every step is one such read,    *)
(* by main's loop or by an iteration of the for loop of run_macro.         *)

MaxKeys == 6        \* keys read in a session

\* the keys that edit or move
EditKeys == TypedChars \cup {"KEY_LEFT", "KEY_BACKSPACE"}

\* handle_input, the branch of a key that is none of Ctrl+M, ESC, Ctrl+\;
\* nothing is typed into the dialog of Ctrl+R
dispatch(self, key) ==
    CASE key = "KEY_LEFT"      -> key_left(self)
      [] key = "KEY_BACKSPACE" -> key_backspace(self)
      [] key = "Ctrl+R"        -> show_replace_dialog(self, <<>>).self
      [] key \in TypedChars    -> key_char(self, key)
      [] OTHER                 -> self

\* handle_input, the recording of the key read: Ctrl+R is not recorded
record(recording, commands, key) ==
    IF recording /\ key # "Ctrl+R" THEN Append(commands, key) ELSE commands

\* the for loop of run_macro as it starts: it iterates the list object
\* self.macro_commands (live), no iteration done yet (pos); recorded and
\* before keep the list and the editor as they are when the loop starts
Loop(commands, self) ==
    [cmds |-> commands, pos |-> 0, live |-> TRUE,
     recorded |-> commands, before |-> self]

\* the list a loop iterates: self.macro_commands as long as that name is
\* bound to the same object, the object it was started on afterwards
loop_list(loop, commands) == IF loop.live THEN commands ELSE loop.cmds

\* self.macro_commands = []: the name is bound to a new list, the loops in
\* progress keep the old one
rebind(running, commands) ==
    [k \in 1..Len(running) |->
        IF running[k].live
        THEN [running[k] EXCEPT !.cmds = commands, !.live = FALSE]
        ELSE running[k]]

\* TextEditor.toggle_macro_recording
toggle_macro_recording(recording, commands, running) ==
    IF ~recording
    THEN [recording |-> TRUE, commands |-> <<>>,
          loops |-> rebind(running, commands)]
    ELSE [recording |-> FALSE, commands |-> commands, loops |-> running]

\* handle_input returns: the iteration of the innermost loop is done; the
\* loop goes on if its list has a next element, else run_macro returns to
\* the handle_input that called it, which returns in its turn
RECURSIVE iteration_done(_, _)
iteration_done(running, commands) ==
    IF running = <<>> THEN <<>>
    ELSE LET n   == Len(running)
             top == running[n]
         IN  IF top.pos + 1 < Len(loop_list(top, commands))
             THEN [running EXCEPT ![n].pos = top.pos + 1]
             ELSE iteration_done(SubSeq(running, 1, n - 1), commands)

\* TextEditor.run_macro up to the first getch of its loop
run_macro(self, commands, running) ==
    IF commands = <<>> THEN iteration_done(running, commands)
    ELSE Append(running, Loop(commands, self))

InitMacro ==
    \E rows \in {<< <<>> >>, << <<"a">> >>} :
        StartFrom(rows, <<0, Len(rows[1])>>, FALSE)

\* handle_input reads key with getch, records it and handles it
HandleInput(key) ==
    /\ pc = "start"
    /\ ~exc
    /\ steps < MaxKeys
    /\ LET commands == record(macro_recording, macro_commands, key)
       IN  IF key = "Ctrl+M"
           THEN LET m == toggle_macro_recording(macro_recording, commands, loops)
                IN  /\ macro_recording' = m.recording
                    /\ macro_commands' = m.commands
                    /\ loops' = iteration_done(m.loops, m.commands)
                    /\ Commit(Self)
           ELSE IF key = "ESC"
           THEN /\ macro_recording' = FALSE
                /\ macro_commands' = commands
                /\ loops' = iteration_done(loops, commands)
                /\ Commit(Self)
           ELSE IF key = "Ctrl+\\"
           THEN /\ macro_recording' = macro_recording
                /\ macro_commands' = commands
                /\ loops' = run_macro(Self, commands, loops)
                /\ Commit(Self)
           ELSE /\ macro_recording' = macro_recording
                /\ macro_commands' = commands
                /\ loops' = iteration_done(loops, commands)
                /\ Commit(dispatch(Self, key))
    /\ call' = <<key>>
    /\ ret' = None
    /\ steps' = steps + 1
    /\ UNCHANGED <<orig, trail, pc, file, saved_lines, scan>>

MacroEdit   == \E key \in EditKeys \cup {"Ctrl+R"} : HandleInput(key)
MacroToggle == HandleInput("Ctrl+M")
MacroCancel == HandleInput("ESC")
MacroRun    == HandleInput("Ctrl+\\")

NextMacro ==
    \/ MacroEdit
    \/ MacroToggle
    \/ MacroCancel
    \/ MacroRun

SpecMacro == InitMacro /\ [][NextMacro]_vars

\* the editor after the keys of commands are typed one after the other;
\* Ctrl+M and ESC change neither the buffer nor the cursor
RECURSIVE Typed(_, _)
Typed(commands, self) ==
    IF commands = <<>> THEN self
    ELSE Typed(Tail(commands), dispatch(self, Head(commands)))

\* C31: running a macro applies each recorded command, in recorded order
\* and once each, through the operations of live input: a step of the
\* playback reads no key of the terminal, and when the loop of a macro
\* recorded from keys K ends, buffer and cursor are those of typing K on
\* the state the playback started from.
C31_MacroReplaysRecordedQueue ==
    /\ [][loops # <<>> => steps' = steps]_vars
    /\ [][/\ Len(loops) = 1
          /\ loops' = <<>>
          /\ \A k \in 1..Len(loops[1].recorded) :
                loops[1].recorded[k] # "Ctrl+\\"
          => LET typed == Typed(loops[1].recorded, loops[1].before)
             IN  /\ lines' = typed.lines
                 /\ cursor_x' = typed.cursor_x
                 /\ cursor_y' = typed.cursor_y]_vars

=============================================================================
